---- MODULE Spec2Model ----
(***************************************************************************)
(* A model of the geometric-algebra engine of ga.ts: the Algebra           *)
(* constructor (basis enumeration, metric and transform matrices, wedge,   *)
(* geometric-product, dual and anti-wedge tables) and the multivector      *)
(* operations evaluated against those tables.                              *)
(*                                                                         *)
(* Representation.                                                         *)
(*  - A JavaScript string is a sequence of one-character strings, so that  *)
(*    "e" + labels.join("") and parseSubscripts are modelled by what they  *)
(*    do: "e12" is <<"e","1","2">>.                                        *)
(*  - A MultiVector (an object with string keys, iterated in insertion     *)
(*    order) is a sequence of <<key, coefficient>> pairs with distinct     *)
(*    keys.                                                                *)
(*  - A Matrix is a sequence of rows, each a sequence of numbers; the      *)
(*    0-based index i of the source is the 1-based index i+1 here.         *)
(*  - Numbers are integers.  The only non-integers the modelled programs   *)
(*    use are halves (the 2D conformal transform and points); a matrix or  *)
(*    multivector that holds them is stored multiplied by its denominator, *)
(*    which the definition's name and comment state.                       *)
(***************************************************************************)
EXTENDS Integers, Sequences, FiniteSets, TLC

\* algebra: the constructed Algebra object; op: the operation last called on it;
\* argA, argB: the operands it was called with; out: what it returned;
\* threw: whether it raised an error instead of returning
VARIABLES algebra, op, argA, argB, out, threw

vars == <<algebra, op, argA, argB, out, threw>>

(***************************************************************************)
(* Bounds of the model.                                                    *)
(***************************************************************************)
\* largest dimension for which every signature (p,q,z) is constructed
MaxDim == 2
\* operand coefficients range over -1..MaxCoef without 0
MaxCoef == 1
\* operands have at most MaxTerms blades
MaxTerms == 2
\* entries of the transforms of generated child algebras: -MaxEntry..MaxEntry
MaxEntry == 1
\* nesting depth of generated child algebras
MaxDepth == 2

(***************************************************************************)
(* Generic helpers.                                                        *)
(***************************************************************************)
RECURSIVE Pow2(_)
Pow2(n) == IF n = 0 THEN 1 ELSE 2 * Pow2(n - 1)

RECURSIVE SumSeq(_)
SumSeq(s) == IF s = <<>> THEN 0 ELSE Head(s) + SumSeq(Tail(s))

RECURSIVE Flatten(_)
\* Array.prototype.join("") of an array of strings
Flatten(ss) == IF ss = <<>> THEN <<>> ELSE Head(ss) \o Flatten(Tail(ss))

\* Array.prototype.indexOf, 0-based, -1 when absent
IndexOf(seq, x) ==
    IF \E i \in DOMAIN seq : seq[i] = x
    THEN (CHOOSE i \in DOMAIN seq : seq[i] = x /\ \A j \in 1..(i-1) : seq[j] # x) - 1
    ELSE -1

\* String.prototype.startsWith(sub, pos), pos 0-based
StartsWith(s, sub, pos) ==
    /\ pos + Len(sub) <= Len(s)
    /\ \A i \in 1..Len(sub) : s[pos + i] = sub[i]

\* the value JavaScript yields for a missing property
Undefined == "undefined"

\* the number NaN
NaN == "NaN"

\* x is a number other than NaN
IsNumber(x) == ToString(x) \notin {ToString(Undefined), ToString(NaN)}

\* x * y, which is NaN when either is undefined or NaN
Times(x, y) == IF IsNumber(x) /\ IsNumber(y) THEN x * y ELSE NaN

(***************************************************************************)
(* MultiVector objects.                                                    *)
(***************************************************************************)
MvKeys(v) == [i \in DOMAIN v |-> v[i][1]]
MvHas(v, k) == \E i \in DOMAIN v : v[i][1] = k
\* v[k]
MvGet(v, k) ==
    IF MvHas(v, k) THEN v[CHOOSE i \in DOMAIN v : v[i][1] = k][2] ELSE Undefined
\* v[k] where the code treats undefined as 0 (v[k] ?? 0, v[k] || 0, truthiness)
MvGet0(v, k) == IF MvHas(v, k) THEN MvGet(v, k) ELSE 0
\* v[k] = c : an existing key keeps its place, a new key goes last
MvSet(v, k, c) ==
    IF MvHas(v, k)
    THEN [i \in DOMAIN v |-> IF v[i][1] = k THEN <<k, c>> ELSE v[i]]
    ELSE Append(v, <<k, c>>)
\* delete v[k]
MvDelete(v, k) == SelectSeq(v, LAMBDA e : e[1] # k)

(***************************************************************************)
(* MatrixMath                                                              *)
(***************************************************************************)
\* MatrixMath.create(rows, columns, diagonal) with an array diagonal
MatrixCreate(rows, columns, diagonal) ==
    [r \in 1..rows |-> [c \in 1..columns |-> IF r = c THEN diagonal[r] ELSE 0]]

\* MatrixMath.create(rows, columns, diagonal) with a number diagonal
MatrixCreateN(rows, columns, d) ==
    MatrixCreate(rows, columns, [r \in 1..rows |-> d])

MatrixDim(m) ==
    [rows |-> Len(m), columns |-> IF Len(m) # 0 THEN Len(m[1]) ELSE 0]

\* the product of x with the transpose of y
MatrixMulByRows(x, y) ==
    LET aRows == MatrixDim(x).rows
        aColumns == MatrixDim(x).columns
        bRows == MatrixDim(y).rows
        bColumns == MatrixDim(y).columns
    IN  IF aColumns = bRows
        THEN [row \in 1..aRows |-> [column \in 1..bColumns |->
                SumSeq([k \in 1..aColumns |-> x[row][k] * y[column][k]])]]
        ELSE <<>>

MatrixMul(x, y) ==
    LET aRows == MatrixDim(x).rows
        aColumns == MatrixDim(x).columns
        bRows == MatrixDim(y).rows
        bColumns == MatrixDim(y).columns
    IN  IF aColumns = bRows
        THEN [row \in 1..aRows |-> [column \in 1..bColumns |->
                SumSeq([k \in 1..aColumns |-> x[row][k] * y[k][column]])]]
        ELSE <<>>

\* c[row][column] = m[column][row] for row < rows, column < columns
MatrixTranspose(m) ==
    [row \in 1..MatrixDim(m).rows |-> [column \in 1..MatrixDim(m).columns |->
        m[column][row]]]

(***************************************************************************)
(* Algebra: basis enumeration                                              *)
(***************************************************************************)
RECURSIVE BitsFrom(_, _)
BitsFrom(n, index) ==
    IF n = 0 THEN <<>>
    ELSE IF n % 2 = 1 THEN <<index>> \o BitsFrom(n \div 2, index + 1)
    ELSE BitsFrom(n \div 2, index + 1)

\* bits(n): the 0-based positions of the ones of n, ascending
Bits(n) == BitsFrom(n, 0)

RECURSIVE Comp(_, _)
\* the comparator comp of makeBasis
Comp(x, y) ==
    IF x[1] = y[1] /\ Len(x) > 1 THEN Comp(Tail(x), Tail(y)) ELSE x[1] - y[1]

\* the comparator ordering the bit lists of one length by bitmap value
CompareOnesByBitmap(x, y) ==
    IF Len(x) # Len(y) THEN Len(x) - Len(y)
    ELSE SumSeq([i \in DOMAIN x |-> Pow2(x[i])]) - SumSeq([i \in DOMAIN y |-> Pow2(y[i])])

CompareOnes(x, y) ==
    IF Len(x) # Len(y) THEN Len(x) - Len(y) ELSE Comp(x, y)

RECURSIVE InsertOnes(_, _)
InsertOnes(sorted, x) ==
    IF sorted = <<>> THEN <<x>>
    ELSE IF CompareOnes(x, Head(sorted)) < 0 THEN <<x>> \o sorted
    ELSE <<Head(sorted)>> \o InsertOnes(Tail(sorted), x)

RECURSIVE SortOnes(_)
\* [...onesMap].sort(comparator); the comparator orders distinct bit lists
\* strictly, so the result is the unique sorted permutation
SortOnes(s) ==
    IF s = <<>> THEN <<>>
    ELSE InsertOnes(SortOnes(SubSeq(s, 1, Len(s) - 1)), s[Len(s)])

\* ones.reduce((acc, bit) => acc | (1 << bit), 0)
BitmapOf(ones) == SumSeq([i \in DOMAIN ones |-> Pow2(ones[i])])

MakeBasis(degree, subscripts) ==
    LET l == Pow2(degree)
        onesMap == [i \in 1..l |-> Bits(i - 1)]
        sortedOnesMap == SortOnes(onesMap)
    IN  [b |-> [i \in 1..l |-> <<"e">> \o
                  Flatten([j \in DOMAIN sortedOnesMap[i] |->
                             subscripts[sortedOnesMap[i][j] + 1]])],
         onesMap |-> onesMap,
         bitmaps |-> [i \in 1..l |-> BitmapOf(sortedOnesMap[i])]]

(***************************************************************************)
(* Algebra.parseSubscripts                                                 *)
(***************************************************************************)
RECURSIVE InsertLongest(_, _)
InsertLongest(sorted, x) ==
    IF sorted = <<>> THEN <<x>>
    ELSE IF Len(x) > Len(Head(sorted)) THEN <<x>> \o sorted
    ELSE <<Head(sorted)>> \o InsertLongest(Tail(sorted), x)

RECURSIVE SortLongestFirst(_)
\* [...subscripts].sort((a, b) => b.length - a.length), a stable sort
SortLongestFirst(s) ==
    IF s = <<>> THEN <<>>
    ELSE InsertLongest(SortLongestFirst(SubSeq(s, 1, Len(s) - 1)), s[Len(s)])

\* the value that stands for "parseSubscripts threw"
ParseFailure == <<<<"!">>>>

RECURSIVE ParseFrom(_, _, _, _)
ParseFrom(s, pos, sorted, res) ==
    IF pos >= Len(s) THEN res
    ELSE IF \E i \in DOMAIN sorted : StartsWith(s, sorted[i], pos)
    THEN LET i == CHOOSE i \in DOMAIN sorted :
                    /\ StartsWith(s, sorted[i], pos)
                    /\ \A j \in 1..(i-1) : ~StartsWith(s, sorted[j], pos)
         IN  ParseFrom(s, pos + Len(sorted[i]), sorted, Append(res, sorted[i]))
    ELSE ParseFailure

ParseSubscripts(subscripts, basisName) ==
    LET s == IF StartsWith(basisName, <<"e">>, 0) THEN Tail(basisName) ELSE basisName
    IN  IF s = <<>> THEN <<>>
        ELSE ParseFrom(s, 0, SortLongestFirst(subscripts), <<>>)

(***************************************************************************)
(* Bit operations on non-negative integers                                 *)
(***************************************************************************)
RECURSIVE BitXor(_, _)
BitXor(x, y) ==
    IF x = 0 /\ y = 0 THEN 0
    ELSE (((x % 2) + (y % 2)) % 2) + 2 * BitXor(x \div 2, y \div 2)

RECURSIVE PopCount(_)
\* while (n) { count += n & 1; n >>= 1; }
PopCount(n) == IF n = 0 THEN 0 ELSE (n % 2) + PopCount(n \div 2)

(***************************************************************************)
(* The JavaScript Maps of the constructor.  Map.set overwrites, so a key   *)
(* set twice keeps the value of the last set.                              *)
(***************************************************************************)
LastIndex(seq, x) ==
    CHOOSE i \in DOMAIN seq : seq[i] = x /\ \A j \in (i+1)..Len(seq) : seq[j] # x

\* subscriptOrder: subscript -> 0-based position
SubscriptOrderOf(subscripts) ==
    [s \in {subscripts[i] : i \in DOMAIN subscripts} |-> LastIndex(subscripts, s) - 1]

\* basisBitmap: blade name -> bitmap
BasisBitmapOf(basis, bitmaps) ==
    [n \in {basis[i] : i \in DOMAIN basis} |-> bitmaps[LastIndex(basis, n)]]

\* bitmapBasis: bitmap -> blade name
BitmapBasisOf(basis, bitmaps) ==
    [m \in {bitmaps[i] : i \in DOMAIN bitmaps} |-> basis[LastIndex(bitmaps, m)]]

\* basisGrades: a sparse array indexed by name.length - 1
BasisGradesOf(basis) ==
    [k \in {Len(basis[i]) - 1 : i \in DOMAIN basis} |->
        SelectSeq(basis, LAMBDA n : Len(n) - 1 = k)]

(***************************************************************************)
(* Algebra.makeWedgeTable                                                  *)
(***************************************************************************)
RECURSIVE WedgeInner(_, _, _, _)
\* for (let i = 0; i < last; i++) { ... }, st = [result, swaps, swapped, zero]
WedgeInner(order, st, i, last) ==
    IF i >= last THEN st
    ELSE LET l == st.result[i + 1]
             r == st.result[i + 2]
         IN  IF l = r
             THEN WedgeInner(order, [st EXCEPT !.zero = TRUE], i + 1, last)
             ELSE IF order[l] > order[r]
             THEN WedgeInner(order,
                     [st EXCEPT !.result = [st.result EXCEPT ![i + 1] = r, ![i + 2] = l],
                                !.swapped = TRUE,
                                !.swaps = st.swaps + 1], i + 1, last)
             ELSE WedgeInner(order, st, i + 1, last)

RECURSIVE WedgeOuter(_, _, _)
\* while (last > 0 && swapped && !zero) { swapped = false; ...; last -= 1; }
WedgeOuter(order, st, last) ==
    IF last > 0 /\ st.swapped /\ ~st.zero
    THEN WedgeOuter(order, WedgeInner(order, [st EXCEPT !.swapped = FALSE], 0, last),
                    last - 1)
    ELSE st

\* the wedge entry without the sign of the sort
WedgeEntryUnsigned(subscripts, order, ea, eb) ==
    LET left == ParseSubscripts(subscripts, ea)
        right == ParseSubscripts(subscripts, eb)
        start == left \o right
        st == WedgeOuter(order,
                 [result |-> start, swaps |-> 0, swapped |-> TRUE, zero |-> FALSE],
                 Len(start) - 1)
    IN  IF st.zero THEN <<>>
        ELSE << << <<"e">> \o Flatten(st.result), 1 >> >>

\* the wedge entry with sign -1 whenever the sort swapped at all
WedgeEntryNegativeOnAnySwap(subscripts, order, ea, eb) ==
    LET left == ParseSubscripts(subscripts, ea)
        right == ParseSubscripts(subscripts, eb)
        start == left \o right
        st == WedgeOuter(order,
                 [result |-> start, swaps |-> 0, swapped |-> TRUE, zero |-> FALSE],
                 Len(start) - 1)
    IN  IF st.zero THEN <<>>
        ELSE << << <<"e">> \o Flatten(st.result),
                   IF st.swaps > 0 THEN -1 ELSE 1 >> >>

WedgeEntry(subscripts, order, ea, eb) ==
    LET left == ParseSubscripts(subscripts, ea)
        right == ParseSubscripts(subscripts, eb)
        start == left \o right
        st == WedgeOuter(order,
                 [result |-> start, swaps |-> 0, swapped |-> TRUE, zero |-> FALSE],
                 Len(start) - 1)
    IN  IF st.zero THEN <<>>
        ELSE << << <<"e">> \o Flatten(st.result),
                   IF st.swaps % 2 = 1 THEN -1 ELSE 1 >> >>

MakeWedgeTable(basis, subscripts, order) ==
    LET names == {basis[i] : i \in DOMAIN basis}
    IN  [ea \in names |-> [eb \in names |-> WedgeEntry(subscripts, order, ea, eb)]]

(***************************************************************************)
(* Algebra.makeGeometricProductTable                                       *)
(***************************************************************************)
RECURSIVE GpInner(_, _, _, _)
GpInner(order, st, i, last) ==
    IF i >= last THEN st
    ELSE LET l == st.result[i + 1]
             r == st.result[i + 2]
         IN  IF order[l] > order[r]
             THEN GpInner(order,
                     [st EXCEPT !.result = [st.result EXCEPT ![i + 1] = r, ![i + 2] = l],
                                !.swapped = TRUE,
                                !.swaps = st.swaps + 1], i + 1, last)
             ELSE GpInner(order, st, i + 1, last)

RECURSIVE GpOuter(_, _, _)
GpOuter(order, st, last) ==
    IF last > 0 /\ st.swapped
    THEN GpOuter(order, GpInner(order, [st EXCEPT !.swapped = FALSE], 0, last), last - 1)
    ELSE st

RECURSIVE GpCollapseIgnoringSquares(_, _, _, _, _, _)
\* as GpCollapse, with every repeated vector taken to square to +1
GpCollapseIgnoringSquares(subscripts, squares, res, index, result2, swaps) ==
    IF index >= Len(res) THEN [result2 |-> result2, swaps |-> swaps]
    ELSE IF index + 2 <= Len(res) /\ res[index + 1] = res[index + 2]
    THEN GpCollapseIgnoringSquares(subscripts, squares, res, index + 2, result2, swaps)
    ELSE GpCollapseIgnoringSquares(subscripts, squares, res, index + 1,
                                   result2 \o res[index + 1], swaps)

RECURSIVE GpCollapse(_, _, _, _, _, _)
\* while (index < result.length) { ... }: repeats give 0, 1 or -1
GpCollapse(subscripts, squares, res, index, result2, swaps) ==
    IF index >= Len(res) THEN [result2 |-> result2, swaps |-> swaps]
    ELSE IF index + 2 <= Len(res) /\ res[index + 1] = res[index + 2]
    THEN LET bno == IndexOf(subscripts, res[index + 1])
             square == squares[bno + 1]
         IN  IF square = 0
             THEN [result2 |-> <<"0">>, swaps |-> swaps]
             ELSE IF square = 1
             THEN GpCollapse(subscripts, squares, res, index + 2, result2, swaps)
             ELSE GpCollapse(subscripts, squares, res, index + 2, result2, swaps + 1)
    ELSE GpCollapse(subscripts, squares, res, index + 1,
                    result2 \o res[index + 1], swaps)

GpEntry(subscripts, squares, order, ea, eb) ==
    LET left == ParseSubscripts(subscripts, ea)
        right == ParseSubscripts(subscripts, eb)
        start == left \o right
        st == GpOuter(order, [result |-> start, swaps |-> 0, swapped |-> TRUE],
                      Len(start) - 1)
        c == GpCollapse(subscripts, squares, st.result, 0, <<>>, st.swaps)
    IN  IF c.result2 = <<"0">> THEN <<>>
        ELSE << << <<"e">> \o c.result2, IF c.swaps % 2 = 1 THEN -1 ELSE 1 >> >>

MakeGeometricProductTable(basis, subscripts, squares, order) ==
    LET names == {basis[i] : i \in DOMAIN basis}
    IN  [ea \in names |-> [eb \in names |->
            GpEntry(subscripts, squares, order, ea, eb)]]

(***************************************************************************)
(* isZero, getBasis, makeDualTable, makeAntiTable                          *)
(***************************************************************************)
IsZero(v) == Len(v) = 0

GetBasis(v) == IF Len(v) # 0 THEN v[1][1] ELSE <<"?">>

\* the dual table with every sign +1
MakeDualTableUnsigned(side, degree, basis, basisBitmap, bitmapBasis, wedgeTable) ==
    LET allBits == Pow2(degree) - 1
        names == {basis[i] : i \in DOMAIN basis}
    IN  [ea \in names |->
            << <<bitmapBasis[BitXor(allBits, basisBitmap[ea])], 1>> >>]

\* the dual table with the two sides reading each other's wedge entry
MakeDualTableSidesSwapped(side, degree, basis, basisBitmap, bitmapBasis, wedgeTable) ==
    LET allBits == Pow2(degree) - 1
        names == {basis[i] : i \in DOMAIN basis}
    IN  [ea \in names |->
            LET complementBitmap == BitXor(allBits, basisBitmap[ea])
                ed == bitmapBasis[complementBitmap]
                signVector == IF side = "left" THEN wedgeTable[ea][ed]
                                               ELSE wedgeTable[ed][ea]
                signBasis == GetBasis(signVector)
            IN  << <<ed, MvGet(signVector, signBasis)>> >>]

MakeDualTable(side, degree, basis, basisBitmap, bitmapBasis, wedgeTable) ==
    LET allBits == Pow2(degree) - 1
        names == {basis[i] : i \in DOMAIN basis}
    IN  [ea \in names |->
            LET complementBitmap == BitXor(allBits, basisBitmap[ea])
                ed == bitmapBasis[complementBitmap]
                signVector == IF side = "left" THEN wedgeTable[ed][ea]
                                               ELSE wedgeTable[ea][ed]
                signBasis == GetBasis(signVector)
            IN  << <<ed, MvGet(signVector, signBasis)>> >>]

AntiEntry(table, leftDualTable, rightDualTable, ea, eb) ==
    LET lea == leftDualTable[ea]
        leb == leftDualTable[eb]
        leaBasis == GetBasis(lea)
        lebBasis == GetBasis(leb)
        w == table[leaBasis][lebBasis]
    IN  IF IsZero(w) THEN w
        ELSE LET wBasis == GetBasis(w)
                 rw == rightDualTable[wBasis]
                 rwBasis == GetBasis(rw)
             IN  << <<wBasis, Times(Times(Times(MvGet(lea, leaBasis),
                                                MvGet(leb, lebBasis)),
                                          MvGet(w, wBasis)),
                                    MvGet(rw, rwBasis))>> >>

MakeAntiTable(basis, table, leftDualTable, rightDualTable) ==
    LET names == {basis[i] : i \in DOMAIN basis}
    IN  [ea \in names |-> [eb \in names |->
            AntiEntry(table, leftDualTable, rightDualTable, ea, eb)]]

(***************************************************************************)
(* Multivector operations of Algebra.  alg is the Algebra object (this).   *)
(***************************************************************************)
RECURSIVE SortVectorFrom(_, _, _, _)
SortVectorFrom(basis, v, i, sorted) ==
    IF i > Len(basis) THEN sorted
    ELSE IF MvGet0(v, basis[i]) # 0
    THEN SortVectorFrom(basis, v, i + 1, MvSet(sorted, basis[i], MvGet(v, basis[i])))
    ELSE SortVectorFrom(basis, v, i + 1, sorted)

\* sortVector: the keys of v with a truthy coefficient, in basis order
SortVector(alg, v) == SortVectorFrom(alg.basis, v, 1, <<>>)

RECURSIVE UnionKeys(_, _)
\* new Set(Object.keys(a)).union(new Set(Object.keys(b))), in insertion order
UnionKeys(keys, more) ==
    IF more = <<>> THEN keys
    ELSE IF \E i \in DOMAIN keys : keys[i] = Head(more)
    THEN UnionKeys(keys, Tail(more))
    ELSE UnionKeys(Append(keys, Head(more)), Tail(more))

\* binary(a, b, f) with f = (a, b) => a + sgn * b
Binary(alg, a, b, sgn) ==
    LET keys == UnionKeys(UnionKeys(<<>>, MvKeys(a)), MvKeys(b))
    IN  SortVector(alg, [i \in DOMAIN keys |->
                            <<keys[i], MvGet0(a, keys[i]) + sgn * MvGet0(b, keys[i])>>])

Add(alg, a, b) == Binary(alg, a, b, 1)
Sub(alg, a, b) == Binary(alg, a, b, -1)

\* scale(s, m): no sortVector here
Scale(s, m) == [i \in DOMAIN m |-> <<m[i][1], s * m[i][2]>>]

RECURSIVE CayleyAccumulateOverwriting(_, _, _, _)
\* the accumulation storing each term over the sum so far
CayleyAccumulateOverwriting(answer, entry, k, ab) ==
    IF k > Len(entry) THEN answer
    ELSE LET basisR == entry[k][1]
             n == entry[k][2] * ab
         IN  CayleyAccumulateOverwriting(IF n = 0 THEN MvDelete(answer, basisR)
                                                    ELSE MvSet(answer, basisR, n),
                                         entry, k + 1, ab)

RECURSIVE CayleyAccumulate(_, _, _, _)
\* for (const basisR in result) { ... } with ab = a[basisA] * b[basisB]
CayleyAccumulate(answer, entry, k, ab) ==
    IF k > Len(entry) THEN answer
    ELSE LET basisR == entry[k][1]
             n == entry[k][2] * ab
             sum == IF MvGet0(answer, basisR) # 0 THEN MvGet(answer, basisR) + n ELSE n
         IN  CayleyAccumulate(IF sum = 0 THEN MvDelete(answer, basisR)
                                         ELSE MvSet(answer, basisR, sum),
                              entry, k + 1, ab)

RECURSIVE CayleyLoop(_, _, _, _, _, _)
CayleyLoop(a, b, cayleyTable, i, j, answer) ==
    IF i > Len(a) THEN answer
    ELSE IF j > Len(b) THEN CayleyLoop(a, b, cayleyTable, i + 1, 1, answer)
    ELSE CayleyLoop(a, b, cayleyTable, i, j + 1,
                    CayleyAccumulate(answer, cayleyTable[a[i][1]][b[j][1]], 1,
                                     a[i][2] * b[j][2]))

CayleyMul(alg, a, b, cayleyTable) ==
    SortVector(alg, CayleyLoop(a, b, cayleyTable, 1, 1, <<>>))

\* wedge reading the geometric product table
WedgeByGeometricProductTable(alg, a, b) ==
    CayleyMul(alg, a, b, alg.geometricProductTable)

Wedge(alg, a, b) == CayleyMul(alg, a, b, alg.wedgeTable)
AntiWedge(alg, a, b) == CayleyMul(alg, a, b, alg.antiWedgeTable)
Gp(alg, a, b) == CayleyMul(alg, a, b, alg.geometricProductTable)

GradeOfBasis(alg, basisName) ==
    IF basisName \in DOMAIN alg.basisBitmap
    THEN PopCount(alg.basisBitmap[basisName])
    ELSE -1

GradeSelect(alg, v, grade) ==
    SortVector(alg, SelectSeq(v, LAMBDA e : GradeOfBasis(alg, e[1]) = grade))

\* (k * (k - 1) / 2) & 1 ? -1 : 1
ReverseSignWrong(k) == IF (k \div 2) % 2 = 0 THEN -1 ELSE 1

ReverseSign(k) == IF ((k * (k - 1)) \div 2) % 2 = 1 THEN -1 ELSE 1

Reverse(alg, v) ==
    SortVector(alg, [i \in DOMAIN v |->
                       <<v[i][1], ReverseSign(GradeOfBasis(alg, v[i][1])) * v[i][2]>>])

RECURSIVE DualAccumulate(_, _, _, _)
\* for (const dBasis in d) { ... } with c = v[basis]
DualAccumulate(acc, d, k, c) ==
    IF k > Len(d) THEN acc
    ELSE LET dBasis == d[k][1]
             sum == MvGet0(acc, dBasis) + c * d[k][2]
         IN  DualAccumulate(IF sum = 0 THEN MvDelete(acc, dBasis)
                                       ELSE MvSet(acc, dBasis, sum),
                            d, k + 1, c)

RECURSIVE DualLoop(_, _, _, _)
DualLoop(v, table, i, acc) ==
    IF i > Len(v) THEN acc
    ELSE DualLoop(v, table, i + 1, DualAccumulate(acc, table[v[i][1]], 1, v[i][2]))

Dual(alg, v) == SortVector(alg, DualLoop(v, alg.rightDualTable, 1, <<>>))
\* unDual reading the right dual table, as dual does
UnDualByRightTable(alg, v) == SortVector(alg, DualLoop(v, alg.rightDualTable, 1, <<>>))

UnDual(alg, v) == SortVector(alg, DualLoop(v, alg.leftDualTable, 1, <<>>))

RECURSIVE ContractAccumulate(_, _, _, _, _, _)
ContractAccumulate(alg, acc, product, k, target, ab) ==
    IF k > Len(product) THEN acc
    ELSE IF GradeOfBasis(alg, product[k][1]) = target
    THEN LET basisR == product[k][1]
             sum == MvGet0(acc, basisR) + product[k][2] * ab
         IN  ContractAccumulate(alg, IF sum = 0 THEN MvDelete(acc, basisR)
                                               ELSE MvSet(acc, basisR, sum),
                                product, k + 1, target, ab)
    ELSE ContractAccumulate(alg, acc, product, k + 1, target, ab)

RECURSIVE ContractLoop(_, _, _, _, _, _)
ContractLoop(alg, a, b, i, j, acc) ==
    IF i > Len(a) THEN acc
    ELSE IF j > Len(b) THEN ContractLoop(alg, a, b, i + 1, 1, acc)
    ELSE LET r == GradeOfBasis(alg, a[i][1])
             s == GradeOfBasis(alg, b[j][1])
         IN  IF s >= r
             THEN ContractLoop(alg, a, b, i, j + 1,
                    ContractAccumulate(alg, acc,
                        alg.geometricProductTable[a[i][1]][b[j][1]], 1, s - r,
                        a[i][2] * b[j][2]))
             ELSE ContractLoop(alg, a, b, i, j + 1, acc)

\* leftContract without the selection of grade s - r
LeftContractOfAnyGrade(alg, a, b) == Gp(alg, a, b)

LeftContract(alg, a, b) == SortVector(alg, ContractLoop(alg, a, b, 1, 1, <<>>))

ScalarProduct(alg, a, b) == MvGet0(Gp(alg, a, b), <<"e">>)
NormSquared(alg, v) == ScalarProduct(alg, v, Reverse(alg, v))
Sandwich(alg, r, x) == Gp(alg, Gp(alg, r, x), Reverse(alg, r))

(***************************************************************************)
(* normalize and inverse scale by numbers that are not integers.  A        *)
(* coefficient c / d is held as the reduced fraction <<n, d>> with d > 0,  *)
(* and a coefficient c / sqrt(a), a not a square, as <<c, "/sqrt", a>>:    *)
(* each names the one double the program computes from c and d (or a).     *)
(* A call that may throw returns [threw, value].                           *)
(***************************************************************************)
Abs(x) == IF x < 0 THEN -x ELSE x

RECURSIVE Gcd(_, _)
Gcd(x, y) == IF y = 0 THEN x ELSE Gcd(y, x % y)

\* c / d, d # 0
Ratio(c, d) ==
    LET k == Gcd(Abs(c), Abs(d))
        sgn == IF d < 0 THEN -1 ELSE 1
    IN  <<(sgn * c) \div k, Abs(d) \div k>>

\* Math.sqrt(a) where it is an integer, 0 otherwise (a >= 1)
IntegerRoot(a) ==
    IF \E r \in 1..a : r * r = a THEN CHOOSE r \in 1..a : r * r = a ELSE 0

\* c / Math.sqrt(a), a >= 1
OverRoot(c, a) ==
    IF IntegerRoot(a) # 0 THEN Ratio(c, IntegerRoot(a)) ELSE <<c, "/sqrt", a>>

\* scale(1 / d, m)
ScaleByReciprocal(d, m) == [i \in DOMAIN m |-> <<m[i][1], Ratio(m[i][2], d)>>]

\* scale(1 / Math.sqrt(a), m)
ScaleByReciprocalRoot(a, m) == [i \in DOMAIN m |-> <<m[i][1], OverRoot(m[i][2], a)>>]

Normalize(alg, v) ==
    LET ns == NormSquared(alg, v)
    IN  [threw |-> FALSE,
         value |-> IF ns = 0 THEN v ELSE ScaleByReciprocalRoot(Abs(ns), v)]

\* inverse scaling v itself, not reverse(v)
InverseWithoutReverse(alg, v) ==
    LET ns == NormSquared(alg, v)
    IN  IF ns = 0 THEN [threw |-> TRUE, value |-> <<>>]
        ELSE [threw |-> FALSE, value |-> ScaleByReciprocal(ns, v)]

Inverse(alg, v) ==
    LET ns == NormSquared(alg, v)
    IN  IF ns = 0 THEN [threw |-> TRUE, value |-> <<>>]
        ELSE [threw |-> FALSE, value |-> ScaleByReciprocal(ns, Reverse(alg, v))]

(***************************************************************************)
(* Algebra.makeMn and the constructor.  The parent field is <<>> for null  *)
(* and <<parentAlgebra>> otherwise; m and g are functions of the grade.    *)
(***************************************************************************)
\* the multivector built from column `col` (0-based) of matrix mat over the
\* parent's blades `blades`, skipping falsy entries (every entry of column -1
\* is undefined)
ColumnVector(mat, col, count, blades) ==
    LET all == [i \in 1..count |->
                  <<blades[i], IF col >= 0 THEN mat[i][col + 1] ELSE 0>>]
    IN  SelectSeq(all, LAMBDA e : e[2] # 0)

\* makeMn wedging the grade-(bits-1) column before the vector column
MakeMnRestFirst(bits, parent, basisGrades, subscripts, m1, mPrev) ==
    LET vectors == basisGrades[bits]
        mn == MatrixCreateN(Len(vectors), Len(vectors), 1)
    IN  IF parent # <<>>
        THEN LET par == parent[1]
                 column(index) ==
                    LET subs == ParseSubscripts(subscripts, vectors[index])
                        single == IndexOf(basisGrades[1], <<"e">> \o subs[1])
                        rest == IndexOf(basisGrades[bits - 1],
                                        <<"e">> \o Flatten(Tail(subs)))
                        left == ColumnVector(m1, single, Len(basisGrades[1]),
                                             par.basisGrades[1])
                        right == ColumnVector(mPrev, rest, Len(basisGrades[bits - 1]),
                                              par.basisGrades[bits - 1])
                    IN  Wedge(par, right, left)
                 columns == [index \in 1..Len(vectors) |-> column(index)]
             IN  [i \in 1..Len(vectors) |-> [index \in 1..Len(vectors) |->
                    IF i <= Len(par.basisGrades[bits])
                    THEN MvGet0(columns[index], par.basisGrades[bits][i])
                    ELSE mn[i][index]]]
        ELSE mn

MakeMn(bits, parent, basisGrades, subscripts, m1, mPrev) ==
    LET vectors == basisGrades[bits]
        mn == MatrixCreateN(Len(vectors), Len(vectors), 1)
    IN  IF parent # <<>>
        THEN LET par == parent[1]
                 column(index) ==
                    LET subs == ParseSubscripts(subscripts, vectors[index])
                        single == IndexOf(basisGrades[1], <<"e">> \o subs[1])
                        rest == IndexOf(basisGrades[bits - 1],
                                        <<"e">> \o Flatten(Tail(subs)))
                        left == ColumnVector(m1, single, Len(basisGrades[1]),
                                             par.basisGrades[1])
                        right == ColumnVector(mPrev, rest, Len(basisGrades[bits - 1]),
                                              par.basisGrades[bits - 1])
                    IN  Wedge(par, left, right)
                 columns == [index \in 1..Len(vectors) |-> column(index)]
             IN  [i \in 1..Len(vectors) |-> [index \in 1..Len(vectors) |->
                    IF i <= Len(par.basisGrades[bits])
                    THEN MvGet0(columns[index], par.basisGrades[bits][i])
                    ELSE mn[i][index]]]
        ELSE mn

\* g[bits] of a root algebra: diagonal, from g[1] and g[bits-1]
RootMetric(bits, basisGrades, subscripts, g1, gPrev) ==
    LET vectors == basisGrades[bits]
        diag(index) ==
            LET subs == ParseSubscripts(subscripts, vectors[index])
                left == IndexOf(basisGrades[1], <<"e">> \o subs[1])
                right == IndexOf(basisGrades[bits - 1], <<"e">> \o Flatten(Tail(subs)))
            IN  g1[left + 1][left + 1] * gPrev[right + 1][right + 1]
    IN  [r \in 1..Len(vectors) |-> [c \in 1..Len(vectors) |->
            IF r = c THEN diag(r) ELSE 0]]

\* M * (Gparent * M), the transpose left out
ChildMetricWithoutTranspose(mk, gParent) ==
    MatrixMul(mk, MatrixMul(gParent, mk))

\* M^T * (Gparent * M)
ChildMetric(mk, gParent) ==
    MatrixMul(MatrixTranspose(mk), MatrixMul(gParent, mk))

RECURSIVE BuildM(_, _, _, _, _, _)
\* for (let bits = 2; bits < degree + 1; bits++) this.m[bits] = this.makeMn(bits)
BuildM(ms, bits, degree, parent, basisGrades, subscripts) ==
    IF bits > degree THEN ms
    ELSE BuildM(Append(ms, MakeMn(bits, parent, basisGrades, subscripts,
                                  ms[1], ms[bits - 1])),
                bits + 1, degree, parent, basisGrades, subscripts)

RECURSIVE BuildG(_, _, _, _, _, _, _)
BuildG(gs, bits, degree, parent, basisGrades, subscripts, ms) ==
    IF bits > degree THEN gs
    ELSE BuildG(Append(gs,
                    IF parent # <<>>
                    THEN ChildMetric(ms[bits], parent[1].g[bits])
                    ELSE RootMetric(bits, basisGrades, subscripts, gs[1], gs[bits - 1])),
                bits + 1, degree, parent, basisGrades, subscripts, ms)

\* the body of the constructor after squares, subscripts, parent and the
\* transform argument are settled (ga.ts lines 53-55 and 70-124)
AlgebraBuild(squares, subscripts, parent, transform) ==
    LET degree == Len(squares)
        subscriptOrder == SubscriptOrderOf(subscripts)
        made == MakeBasis(degree, subscripts)
        basis == made.b
        basisBitmap == BasisBitmapOf(basis, made.bitmaps)
        bitmapBasis == BitmapBasisOf(basis, made.bitmaps)
        basisGrades == BasisGradesOf(basis)
        g1 == IF parent # <<>>
              THEN ChildMetric(transform, parent[1].g[1])
              ELSE MatrixCreate(degree, degree, squares)
        ms == BuildM(<<transform>>, 2, degree, parent, basisGrades, subscripts)
        gs == BuildG(<<g1>>, 2, degree, parent, basisGrades, subscripts, ms)
        geometricProductTable ==
            MakeGeometricProductTable(basis, subscripts, squares, subscriptOrder)
        wedgeTable == MakeWedgeTable(basis, subscripts, subscriptOrder)
        leftDualTable ==
            MakeDualTable("left", degree, basis, basisBitmap, bitmapBasis, wedgeTable)
        rightDualTable ==
            MakeDualTable("right", degree, basis, basisBitmap, bitmapBasis, wedgeTable)
    IN  [parent |-> parent,
         positive |-> Cardinality({i \in DOMAIN squares : squares[i] > 0}),
         negative |-> Cardinality({i \in DOMAIN squares : squares[i] < 0}),
         zero |-> Cardinality({i \in DOMAIN squares : squares[i] = 0}),
         degree |-> degree,
         transform |-> transform,
         squares |-> squares,
         subscripts |-> subscripts,
         subscriptOrder |-> subscriptOrder,
         basis |-> basis,
         basisBitmap |-> basisBitmap,
         bitmapBasis |-> bitmapBasis,
         basisGrades |-> basisGrades,
         onesMap |-> made.onesMap,
         m |-> [k \in 0..degree |-> IF k = 0 THEN <<<<1>>>> ELSE ms[k]],
         g |-> [k \in 0..degree |-> IF k = 0 THEN <<<<1>>>> ELSE gs[k]],
         geometricProductTable |-> geometricProductTable,
         wedgeTable |-> wedgeTable,
         leftDualTable |-> leftDualTable,
         rightDualTable |-> rightDualTable,
         antiWedgeTable |->
            MakeAntiTable(basis, wedgeTable, leftDualTable, rightDualTable)]

RECURSIVE DecimalDigits(_)
\* Number.prototype.toString() of a positive integer
DecimalDigits(n) ==
    LET d == <<"0", "1", "2", "3", "4", "5", "6", "7", "8", "9">>
    IN  IF n < 10 THEN <<d[n + 1]>> ELSE DecimalDigits(n \div 10) \o <<d[(n % 10) + 1]>>

\* subscripts[index] = (index + 1).toString()
NumberedSubscripts(n) == [index \in 1..n |-> DecimalDigits(index)]

\* the counts form with the squares laid out positive, negative, zero
AlgebraFromCountsPositiveFirst(positive, negative, zero) ==
    LET squares == [i \in 1..positive |-> 1] \o [i \in 1..negative |-> -1]
                   \o [i \in 1..zero |-> 0]
    IN  AlgebraBuild(squares, NumberedSubscripts(Len(squares)), <<>>,
                     MatrixCreateN(Len(squares), Len(squares), 1))

\* new Algebra(positive, negative, zero) with three numbers
AlgebraFromCounts(positive, negative, zero) ==
    LET squares == [i \in 1..zero |-> 0] \o [i \in 1..positive |-> 1]
                   \o [i \in 1..negative |-> -1]
    IN  AlgebraBuild(squares, NumberedSubscripts(Len(squares)), <<>>,
                     MatrixCreateN(Len(squares), Len(squares), 1))

\* new Algebra(squares) with an array of numbers
AlgebraFromSquares(squares) ==
    AlgebraBuild(squares, NumberedSubscripts(Len(squares)), <<>>,
                 MatrixCreateN(Len(squares), Len(squares), 1))

\* new Algebra(basisMap) with an array of {square, subscript}
AlgebraFromBasisMap(basisMap) ==
    AlgebraBuild([i \in DOMAIN basisMap |-> basisMap[i].square],
                 [i \in DOMAIN basisMap |-> basisMap[i].subscript], <<>>,
                 MatrixCreateN(Len(basisMap), Len(basisMap), 1))

\* new Algebra(basisMap, {algebra: parent, transform})
AlgebraChild(basisMap, parent, transform) ==
    AlgebraBuild([i \in DOMAIN basisMap |-> basisMap[i].square],
                 [i \in DOMAIN basisMap |-> basisMap[i].subscript], <<parent>>,
                 transform)

(***************************************************************************)
(* The places where the constructor throws (a TypeError on a property of   *)
(* undefined, or the Error of parseSubscripts), for a root and for a child *)
(* whose parent has single-character labels and the child's dimension.     *)
(***************************************************************************)
\* makeMn(bits) throws: basisGrades[bits] is undefined (vectors.length), or,
\* with a parent, a name does not parse, basisGrades[1] or basisGrades[bits-1]
\* is undefined (.indexOf), or the parent has more blades of that grade than
\* mn has rows (mn[i][index] = ...)
MakeMnThrows(bits, parent, basisGrades, subscripts) ==
    \/ bits \notin DOMAIN basisGrades
    \/ /\ parent # <<>>
       /\ basisGrades[bits] # <<>>
       /\ \/ \E i \in DOMAIN basisGrades[bits] :
                ParseSubscripts(subscripts, basisGrades[bits][i]) = ParseFailure
          \/ 1 \notin DOMAIN basisGrades
          \/ (bits - 1) \notin DOMAIN basisGrades
          \/ bits \notin DOMAIN parent[1].basisGrades
          \/ Len(parent[1].basisGrades[bits]) > Len(basisGrades[bits])

\* the loop filling g[bits] of a root throws: a name does not parse,
\* basisGrades[1] or basisGrades[bits-1] is undefined, or indexOf returns -1
\* (g[1][-1] is undefined and undefined[-1] is a TypeError)
RootMetricThrows(bits, basisGrades, subscripts) ==
    \E i \in DOMAIN basisGrades[bits] :
        LET subs == ParseSubscripts(subscripts, basisGrades[bits][i])
        IN  \/ subs = ParseFailure
            \/ 1 \notin DOMAIN basisGrades
            \/ (bits - 1) \notin DOMAIN basisGrades
            \/ IndexOf(basisGrades[1], <<"e">> \o subs[1]) = -1
            \/ IndexOf(basisGrades[bits - 1], <<"e">> \o Flatten(Tail(subs))) = -1

\* new Algebra(...) throws
ConstructorThrows(squares, subscripts, parent) ==
    LET degree == Len(squares)
        basis == MakeBasis(degree, subscripts).b
        basisGrades == BasisGradesOf(basis)
    IN  \/ \E bits \in 2..degree :
              \/ MakeMnThrows(bits, parent, basisGrades, subscripts)
              \/ parent = <<>> /\ RootMetricThrows(bits, basisGrades, subscripts)
        \/ \E i \in DOMAIN basis : ParseSubscripts(subscripts, basis[i]) = ParseFailure

\* new Algebra(basisMap) or new Algebra(basisMap, {algebra, transform}):
\* [threw, value], parent being <<>> or <<parentAlgebra>>
Construct(basisMap, parent, transform) ==
    LET squares == [i \in DOMAIN basisMap |-> basisMap[i].square]
        subscripts == [i \in DOMAIN basisMap |-> basisMap[i].subscript]
    IN  IF ConstructorThrows(squares, subscripts, parent)
        THEN [threw |-> TRUE, value |-> <<>>]
        ELSE [threw |-> FALSE,
              value |-> AlgebraBuild(squares, subscripts, parent,
                           IF parent = <<>>
                           THEN MatrixCreateN(Len(squares), Len(squares), 1)
                           ELSE transform)]

(***************************************************************************)
(* The algebras constructed in the model                                   *)
(***************************************************************************)
\* every counts form (p, q, z) of dimension 1..MaxDim
CountsForms ==
    {t \in (0..MaxDim) \X (0..MaxDim) \X (0..MaxDim) :
        t[1] + t[2] + t[3] >= 1 /\ t[1] + t[2] + t[3] <= MaxDim}

\* the counts forms the repository's tests and scripts construct
\* (test-cga2d.ts lines 68, 110, 187, 545; ga2.ts line 4)
NamedCountsForms == {<<3, 0, 0>>, <<2, 1, 0>>, <<3, 1, 0>>, <<4, 0, 0>>, <<3, 0, 1>>}

R31 == AlgebraFromCounts(3, 1, 0)

\* the basis spec of the 2D conformal algebra (test-cga2d.ts lines 190-195)
CGA2DBasisMap ==
    << [square |-> 1, subscript |-> <<"1">>],
       [square |-> 1, subscript |-> <<"2">>],
       [square |-> 0, subscript |-> <<"o">>],
       [square |-> 0, subscript |-> <<"i">>] >>

\* twice the transform of test-cga2d.ts lines 198-203, whose entries are
\* 1, 0, -1/2 and 1/2: every number derived from it is a dyadic rational that
\* the doubles of the program hold exactly, so that m[k] here is 2^k times the
\* program's m[k] and g[k] is 4^k times the program's g[k]
CGA2DTransformTimes2 ==
    << <<2, 0, 0, 0>>,
       <<0, 2, 0, 0>>,
       <<0, 0, -1, 2>>,
       <<0, 0, 1, 2>> >>

CGA2D == AlgebraChild(CGA2DBasisMap, R31, CGA2DTransformTimes2)

IsCGA2D(alg) ==
    /\ alg.parent # <<>>
    /\ alg.parent[1].parent = <<>>
    /\ alg.parent[1].squares = <<1, 1, 1, -1>>
    /\ alg.squares = <<1, 1, 0, 0>>
    /\ alg.subscripts = <<<<"1">>, <<"2">>, <<"o">>, <<"i">>>>
    /\ alg.transform = CGA2DTransformTimes2

\* a root algebra from a basis spec with letter labels, one of each square
LetterRoot ==
    AlgebraFromBasisMap(<< [square |-> 1, subscript |-> <<"x">>],
                           [square |-> -1, subscript |-> <<"y">>],
                           [square |-> 0, subscript |-> <<"z">>] >>)

\* a root algebra from an array of squares, in an order no counts form gives
SquaresRoot == AlgebraFromSquares(<<-1, 0, 1>>)

\* the basis spec a generated child declares: the labels "a", "b", ... and
\* the squares of its parent
ChildBasisMap(parent) ==
    LET letters == <<"a", "b", "c", "d">>
    IN  [i \in 1..parent.degree |->
            [square |-> parent.squares[i], subscript |-> <<letters[i]>>]]

\* a child with a non-symmetric transform, and a child of that child
ShearChild ==
    AlgebraChild(ChildBasisMap(AlgebraFromCounts(1, 1, 0)),
                 AlgebraFromCounts(1, 1, 0), << <<1, 1>>, <<0, 1>> >>)
ShearGrandChild ==
    AlgebraChild(ChildBasisMap(ShearChild), ShearChild, << <<0, 1>>, <<-1, 1>> >>)

RootAlgebras ==
    {AlgebraFromCounts(t[1], t[2], t[3]) : t \in CountsForms \cup NamedCountsForms}
    \cup {LetterRoot, SquaresRoot}

Algebras == RootAlgebras \cup {CGA2D, ShearChild, ShearGrandChild}

(***************************************************************************)
(* Operands of the calls                                                   *)
(***************************************************************************)
\* the coefficients of the generated operands
Coefs == (-1..MaxCoef) \ {0}

RECURSIVE OperandsUpTo(_, _)
\* the multivectors over the blades of alg with at most t blades, keys in
\* basis order, coefficients in Coefs
OperandsUpTo(alg, t) ==
    IF t = 0 THEN {<<>>}
    ELSE LET prev == OperandsUpTo(alg, t - 1)
         IN  prev \cup
             {Append(w[1], <<alg.basis[w[2]], w[3]>>) :
                w \in
                  {w \in prev \X (DOMAIN alg.basis) \X Coefs :
                     /\ Len(w[1]) = t - 1
                     /\ \/ w[1] = <<>>
                        \/ IndexOf(alg.basis, w[1][Len(w[1])][1]) + 1 < w[2]}}

\* twice the conformal points A = e1 + 0.5ei + eo, B = e2 + 0.5ei + eo and
\* C = -e1 + 0.5ei + eo (part_000 lines 322-324), as add() returns them
PointATimes2 == << <<<<"e", "1">>, 2>>, <<<<"e", "o">>, 2>>, <<<<"e", "i">>, 1>> >>
PointBTimes2 == << <<<<"e", "2">>, 2>>, <<<<"e", "o">>, 2>>, <<<<"e", "i">>, 1>> >>
PointCTimes2 == << <<<<"e", "1">>, -2>>, <<<<"e", "o">>, 2>>, <<<<"e", "i">>, 1>> >>

NamedOperands(alg) ==
    IF IsCGA2D(alg) THEN {PointATimes2, PointBTimes2, PointCTimes2} ELSE {}

\* operands have up to MaxTerms blades in the algebras of dimension up to
\* MaxDim and one blade in the larger ones
TermsFor(alg) == IF alg.degree <= MaxDim THEN MaxTerms ELSE 1

Homogeneous(alg, v) ==
    \A i, j \in DOMAIN v : PopCount(alg.basisBitmap[v[i][1]]) =
                           PopCount(alg.basisBitmap[v[j][1]])

\* the operands of one grade
PairOperands(alg) ==
    {v \in OperandsUpTo(alg, TermsFor(alg)) : Homogeneous(alg, v)}
    \cup NamedOperands(alg)

\* the operands of the operations of one multivector: those of one grade and
\* those of two blades of any grades
Operands(alg) ==
    PairOperands(alg) \cup
    (IF TermsFor(alg) >= 2 THEN OperandsUpTo(alg, 2) ELSE {})

\* the second operands that go with first operand x: the empty multivector,
\* a basis blade, a multivector over exactly the blades of x, or a named operand
SecondOperands(alg, pairOperands, x) ==
    {y \in pairOperands :
        \/ y = <<>>
        \/ Len(y) = 1 /\ y[1][2] = 1
        \/ MvKeys(y) = MvKeys(x)
        \/ y \in NamedOperands(alg)}

\* the pairs of operands of the operations of two multivectors
OperandPairs(alg) ==
    LET pairOperands == PairOperands(alg)
    IN  UNION {{<<x, y>> : y \in SecondOperands(alg, pairOperands, x)} :
                 x \in pairOperands}

(***************************************************************************)
(* The state machine: an Algebra is constructed, then one operation of it  *)
(* is called with operands over its blades.  The operations are pure, so   *)
(* every call starts from the constructed state.                           *)
(***************************************************************************)
Init ==
    /\ algebra \in Algebras
    /\ op = "new"
    /\ argA = <<>>
    /\ argB = <<>>
    /\ out = <<>>
    /\ threw = FALSE

Call(name, x, y, value) ==
    /\ op' = name
    /\ argA' = x
    /\ argB' = y
    /\ out' = value
    /\ UNCHANGED <<algebra, threw>>

\* a call that returns r.value, or throws when r.threw
CallMayThrow(name, x, y, r) ==
    /\ op' = name
    /\ argA' = x
    /\ argB' = y
    /\ out' = r.value
    /\ threw' = r.threw
    /\ UNCHANGED algebra

CallAdd ==
    /\ op = "new"
    /\ \E xy \in OperandPairs(algebra) :
        Call("add", xy[1], xy[2], Add(algebra, xy[1], xy[2]))

CallSub ==
    /\ op = "new"
    /\ \E xy \in OperandPairs(algebra) :
        Call("sub", xy[1], xy[2], Sub(algebra, xy[1], xy[2]))

CallScale ==
    /\ op = "new"
    /\ \E s \in -1..MaxCoef, x \in Operands(algebra) :
        Call("scale", s, x, Scale(s, x))

CallWedge ==
    /\ op = "new"
    /\ \E xy \in OperandPairs(algebra) :
        Call("wedge", xy[1], xy[2], Wedge(algebra, xy[1], xy[2]))

CallAntiWedge ==
    /\ op = "new"
    /\ \E xy \in OperandPairs(algebra) :
        Call("antiWedge", xy[1], xy[2], AntiWedge(algebra, xy[1], xy[2]))

CallGp ==
    /\ op = "new"
    /\ \E xy \in OperandPairs(algebra) :
        Call("gp", xy[1], xy[2], Gp(algebra, xy[1], xy[2]))

CallGradeSelect ==
    /\ op = "new"
    /\ \E x \in Operands(algebra), k \in -1..(algebra.degree + 1) :
        Call("gradeSelect", x, k, GradeSelect(algebra, x, k))

CallReverse ==
    /\ op = "new"
    /\ \E x \in Operands(algebra) :
        Call("reverse", x, <<>>, Reverse(algebra, x))

CallLeftContract ==
    /\ op = "new"
    /\ \E xy \in OperandPairs(algebra) :
        Call("leftContract", xy[1], xy[2], LeftContract(algebra, xy[1], xy[2]))

CallDual ==
    /\ op = "new"
    /\ \E x \in Operands(algebra) :
        Call("dual", x, <<>>, Dual(algebra, x))

CallUnDual ==
    /\ op = "new"
    /\ \E x \in Operands(algebra) :
        Call("unDual", x, <<>>, UnDual(algebra, x))

CallNormSquared ==
    /\ op = "new"
    /\ \E x \in Operands(algebra) :
        Call("normSquared", x, <<>>, NormSquared(algebra, x))

CallSandwich ==
    /\ op = "new"
    /\ \E xy \in OperandPairs(algebra) :
        Call("sandwich", xy[1], xy[2], Sandwich(algebra, xy[1], xy[2]))

CallNormalize ==
    /\ op = "new"
    /\ \E x \in Operands(algebra) :
        CallMayThrow("normalize", x, <<>>, Normalize(algebra, x))

CallInverse ==
    /\ op = "new"
    /\ \E x \in Operands(algebra) :
        CallMayThrow("inverse", x, <<>>, Inverse(algebra, x))

Next ==
    \/ CallAdd
    \/ CallSub
    \/ CallScale
    \/ CallWedge
    \/ CallAntiWedge
    \/ CallGp
    \/ CallGradeSelect
    \/ CallReverse
    \/ CallLeftContract
    \/ CallDual
    \/ CallUnDual
    \/ CallNormSquared
    \/ CallSandwich
    \/ CallNormalize
    \/ CallInverse

Spec == Init /\ [][Next]_vars

(***************************************************************************)
(* Construction of child algebras: from a root algebra, new Algebra(basis  *)
(* spec, {algebra, transform}) builds a child, and a child of that child.  *)
(***************************************************************************)
RECURSIVE Depth(_)
Depth(alg) == IF alg.parent = <<>> THEN 0 ELSE 1 + Depth(alg.parent[1])

\* the n x n matrices with entries in -MaxEntry..MaxEntry
SquareMatrices(n) == [1..n -> [1..n -> -MaxEntry..MaxEntry]]

\* transforms given to the children of children: a shear, a null-basis
\* change and a singular matrix that is not symmetric
DeeperTransforms(n) ==
    IF n = 1 THEN {<< <<-1>> >>, << <<2>> >>}
    ELSE {<< <<1, 1>>, <<0, 1>> >>, << <<-1, 2>>, <<1, 2>> >>, << <<0, 1>>, <<0, 0>> >>}

\* the roots the children are built from: the counts forms of dimension 1,
\* three of dimension 2 and the parent of the 2D conformal algebra
ChildRootCounts ==
    {<<1, 0, 0>>, <<0, 1, 0>>, <<0, 0, 1>>, <<2, 0, 0>>, <<1, 1, 0>>, <<1, 0, 1>>}

ChildRoots ==
    {AlgebraFromCounts(t[1], t[2], t[3]) : t \in ChildRootCounts} \cup {R31}

\* the constructor arguments tried on a given parent
ChildChoices(par) ==
    IF par.parent = <<>> /\ par.squares = <<1, 1, 1, -1>>
    THEN {[basisMap |-> CGA2DBasisMap, transform |-> CGA2DTransformTimes2]}
    ELSE IF par.degree <= 2
    THEN {[basisMap |-> ChildBasisMap(par), transform |-> t] :
             t \in IF Depth(par) = 0 THEN SquareMatrices(par.degree)
                                     ELSE DeeperTransforms(par.degree)}
    ELSE {}

InitChildren ==
    /\ algebra \in ChildRoots
    /\ op = "new"
    /\ argA = <<>>
    /\ argB = <<>>
    /\ out = <<>>
    /\ threw = FALSE

ConstructChild ==
    /\ Depth(algebra) < MaxDepth
    /\ \E c \in ChildChoices(algebra) :
        algebra' = AlgebraChild(c.basisMap, algebra, c.transform)
    /\ UNCHANGED <<op, argA, argB, out, threw>>

NextChildren == ConstructChild

SpecChildren == InitChildren /\ [][NextChildren]_vars

(***************************************************************************)
(* Properties                                                              *)
(***************************************************************************)
Negate(v) == [i \in DOMAIN v |-> <<v[i][1], -v[i][2]>>]

\* every blade of v has grade k
PureGrade(alg, v, k) == \A i \in DOMAIN v : GradeOfBasis(alg, v[i][1]) = k

\* the multivector {name: 1}
Blade(name) == << <<name, 1>> >>

\* the name of basis vector i (1-based) of alg
VectorName(alg, i) == <<"e">> \o alg.subscripts[i]

\* (-1)^(k(n-k))
PoincareSign(k, n) == IF (k * (n - k)) % 2 = 1 THEN -1 ELSE 1

\* C1: for grade-1 multivectors a and b, wedge(b, a) is wedge(a, b) with every
\* coefficient negated, and wedge(a, a) is the empty multivector.
C1_WedgeAntisymmetric ==
    (op = "wedge" /\ PureGrade(algebra, argA, 1) /\ PureGrade(algebra, argB, 1)) =>
        /\ Wedge(algebra, argB, argA) = Negate(out)
        /\ Wedge(algebra, argA, argA) = <<>>
        /\ (argA = argB => out = <<>>)

\* C1 witness: two vectors of two blades each, the same blades, whose wedge
\* is not zero (the cross terms do not cancel)
C1_Witness ==
    /\ op = "wedge"
    /\ Len(argA) = 2 /\ Len(argB) = 2
    /\ PureGrade(algebra, argA, 1) /\ PureGrade(algebra, argB, 1)
    /\ out # <<>>

\* C2 as stated: dual(unDual(v)) = (-1)^(k(n-k)) * v for v of pure grade k.
C2_DualUnDualPoincareSign ==
    (op = "unDual" /\ argA # <<>> /\
        \E k \in 0..algebra.degree : PureGrade(algebra, argA, k)) =>
        LET k == GradeOfBasis(algebra, argA[1][1])
        IN  Dual(algebra, out) = Scale(PoincareSign(k, algebra.degree), argA)

\* C2 amended: dual(unDual(v)) = v for every v of pure grade k: unDual is the
\* inverse of dual, with no sign.
C2_DualUnDualIdentity ==
    (op = "unDual" /\ argA # <<>> /\
        \E k \in 0..algebra.degree : PureGrade(algebra, argA, k)) =>
        Dual(algebra, out) = argA

\* C2 witness: unDual was applied to a vector of a 2-dimensional algebra,
\* where (-1)^(k(n-k)) = -1
C2_Witness ==
    /\ op = "unDual"
    /\ algebra.degree = 2
    /\ Len(argA) = 2
    /\ PureGrade(algebra, argA, 1)
    /\ Len(out) = 2

\* C3: in a root algebra dual(dual(v)) = (-1)^(k(n-k)) * v for v of pure
\* grade k.
C3_DualDualPoincareSign ==
    (op = "dual" /\ algebra.parent = <<>> /\ argA # <<>> /\
        \E k \in 0..algebra.degree : PureGrade(algebra, argA, k)) =>
        LET k == GradeOfBasis(algebra, argA[1][1])
        IN  Dual(algebra, out) = Scale(PoincareSign(k, algebra.degree), argA)

\* C3 witness: dual was applied to e1 in R(4,0,0), where dual(dual(e1)) = -e1
C3_Witness ==
    /\ op = "dual"
    /\ algebra.parent = <<>>
    /\ algebra.squares = <<1, 1, 1, 1>>
    /\ argA = Blade(<<"e", "1">>)
    /\ Dual(algebra, out) = << <<<<"e", "1">>, -1>> >>

\* C4: reverse(reverse(v)) = v; reverse keeps the keys of v and multiplies
\* the coefficient of each grade-k blade by (-1)^(k(k-1)/2), which is -1
\* exactly when k mod 4 is 2 or 3.
C4_ReverseInvolution ==
    op = "reverse" =>
        /\ Reverse(algebra, out) = argA
        /\ MvKeys(out) = MvKeys(argA)
        /\ \A i \in DOMAIN argA :
              out[i][2] = (IF GradeOfBasis(algebra, argA[i][1]) % 4 \in {2, 3}
                           THEN -1 ELSE 1) * argA[i][2]

\* C4 witness: reverse was applied to a multivector with a blade of grade 1
\* and a blade of grade 2
C4_Witness ==
    /\ op = "reverse"
    /\ Len(argA) = 2
    /\ GradeOfBasis(algebra, argA[1][1]) = 1
    /\ GradeOfBasis(algebra, argA[2][1]) = 2
    /\ out # argA

\* C5: gp(e_i, e_i) is {e: square_i} when the declared square of e_i is +1 or
\* -1 and the empty multivector when it is 0.
C5_VectorSquare ==
    \A i \in 1..algebra.degree :
        (op = "gp" /\ argA = Blade(VectorName(algebra, i)) /\ argB = argA) =>
            out = IF algebra.squares[i] = 0 THEN <<>>
                  ELSE << <<<<"e">>, algebra.squares[i]>> >>

\* C5 witness: in Algebra(2,1,0), gp(e3, e3) returned {e: -1}
C5_Witness ==
    /\ op = "gp"
    /\ algebra.parent = <<>>
    /\ algebra.squares = <<1, 1, -1>>
    /\ argA = Blade(<<"e", "3">>)
    /\ argB = argA
    /\ out = << <<<<"e">>, -1>> >>

\* C6: the metric G[1] of the 2D conformal child of Algebra(3,1,0) has
\* g(e1,e1) = g(e2,e2) = 1, g(eo,eo) = g(ei,ei) = 0 and g(eo,ei) = g(ei,eo) = -1
\* (the model holds 4 * G[1], the transform being held doubled).
C6_ConformalMetric ==
    IsCGA2D(algebra) =>
        /\ algebra.g[1][1][1] = 4 * 1
        /\ algebra.g[1][2][2] = 4 * 1
        /\ algebra.g[1][3][3] = 0
        /\ algebra.g[1][4][4] = 0
        /\ algebra.g[1][3][4] = 4 * (-1)
        /\ algebra.g[1][4][3] = 4 * (-1)

\* C6 witness: the 2D conformal algebra has been constructed from its parent
C6_Witness == IsCGA2D(algebra) /\ Depth(algebra) = 1

\* C7: G[1] is symmetric for every constructed algebra, root, child or child
\* of a child.
C7_MetricSymmetric ==
    \A i, j \in 1..algebra.degree : algebra.g[1][i][j] = algebra.g[1][j][i]

\* C7 witness: a child of a child, built with a transform that is not
\* symmetric, whose G[1] is not diagonal
C7_Witness ==
    /\ Depth(algebra) = 2
    /\ algebra.degree = 2
    /\ algebra.transform[1][2] # algebra.transform[2][1]
    /\ algebra.parent[1].transform[1][2] # algebra.parent[1].transform[2][1]
    /\ algebra.g[1][1][2] # 0

\* C8: in the 2D conformal algebra wedge(wedge(A, B), C) of the three points
\* is not empty and every key of it is a blade of grade 3.
C8_ThreePointsTrivector ==
    (IsCGA2D(algebra) /\ op = "wedge" /\ argA = PointATimes2 /\ argB = PointBTimes2) =>
        LET circle == Wedge(algebra, out, PointCTimes2)
        IN  /\ circle # <<>>
            /\ PureGrade(algebra, circle, 3)

\* C8 witness: wedge(A, B) was computed in the 2D conformal algebra
C8_Witness ==
    /\ IsCGA2D(algebra)
    /\ op = "wedge"
    /\ argA = PointATimes2
    /\ argB = PointBTimes2
    /\ out # <<>>

\* C9: in the 2D conformal algebra the scalar part of gp(e_i, e_j) equals
\* G[1][i][j] for all basis vectors (the model holds 4 * G[1]).
C9_GpAgreesWithMetric ==
    \A i, j \in 1..algebra.degree :
        (IsCGA2D(algebra) /\ op = "gp" /\ argA = Blade(VectorName(algebra, i))
            /\ argB = Blade(VectorName(algebra, j))) =>
            4 * MvGet0(out, <<"e">>) = algebra.g[1][i][j]

\* C10: the anti-wedge of basis blades A and B is empty when the wedge of
\* their left duals is zero, and otherwise is the single blade that is the
\* right dual of that wedge (bitmask A AND B) with the product of the four
\* signs as coefficient.
C10_AntiWedgeIsRightDualOfWedge ==
    (op = "antiWedge" /\ Len(argA) = 1 /\ Len(argB) = 1
        /\ argA[1][2] = 1 /\ argB[1][2] = 1) =>
        LET lea == algebra.leftDualTable[argA[1][1]]
            leb == algebra.leftDualTable[argB[1][1]]
            w == algebra.wedgeTable[lea[1][1]][leb[1][1]]
        IN  IF w = <<>> THEN out = <<>>
            ELSE LET rw == algebra.rightDualTable[w[1][1]]
                 IN  /\ out = << <<rw[1][1],
                                   lea[1][2] * leb[1][2] * w[1][2] * rw[1][2]>> >>
                     /\ algebra.basisBitmap[out[1][1]] =
                          BitmapOf(SelectSeq(Bits(algebra.basisBitmap[argA[1][1]]),
                              LAMBDA bit : \E q \in DOMAIN
                                  Bits(algebra.basisBitmap[argB[1][1]]) :
                                  Bits(algebra.basisBitmap[argB[1][1]])[q] = bit))

\* the bits of bitmap x that are also bits of bitmap y (x AND y)
BitAnd(x, y) ==
    BitmapOf(SelectSeq(Bits(x), LAMBDA bit : \E q \in DOMAIN Bits(y) : Bits(y)[q] = bit))

Numerators(v) == [i \in DOMAIN v |-> <<v[i][1], v[i][2][1]>>]

\* some vector of the blade with this name has declared square 0
HasNullVector(alg, name) ==
    \E q \in DOMAIN Bits(alg.basisBitmap[name]) :
        alg.squares[Bits(alg.basisBitmap[name])[q] + 1] = 0

\* C12: inverse(v) raises exactly when normSquared(v) is 0 and otherwise
\* returns reverse(v) scaled by 1 / normSquared(v); for a basis blade B with no
\* vector of square 0, gp(B, inverse(B)) = gp(inverse(B), B) = {e: 1}, and for
\* a basis blade with a vector of square 0 inverse raises.
C12_Inverse ==
    op = "inverse" =>
        LET ns == NormSquared(algebra, argA)
            rev == Reverse(algebra, argA)
        IN  /\ threw <=> ns = 0
            /\ ~threw =>
                  /\ MvKeys(out) = MvKeys(rev)
                  /\ \A i \in DOMAIN out :
                        /\ out[i][2][2] > 0
                        /\ out[i][2][1] * ns = rev[i][2] * out[i][2][2]
            /\ (Len(argA) = 1 /\ argA[1][2] = 1) =>
                  IF HasNullVector(algebra, argA[1][1])
                  THEN threw
                  ELSE /\ ~threw
                       /\ \A i \in DOMAIN out : out[i][2][2] = 1
                       /\ Gp(algebra, argA, Numerators(out)) = Blade(<<"e">>)
                       /\ Gp(algebra, Numerators(out), argA) = Blade(<<"e">>)

\* C12 witness: in R(2,0,0), inverse({e12: 1}) returned {e12: -1}
C12_Witness ==
    /\ op = "inverse"
    /\ ~threw
    /\ algebra.parent = <<>>
    /\ algebra.squares = <<1, 1>>
    /\ argA = Blade(<<"e", "1", "2">>)
    /\ out = << <<<<"e", "1", "2">>, <<-1, 1>>>> >>

\* C13: normalize(v) fails with an error whenever normSquared(v) is 0.
C13_NormalizeFailsOnZeroNorm ==
    (op = "normalize" /\ NormSquared(algebra, argA) = 0) => threw

\* C14: gradeSelect(v, k) with k outside 0..n raises an error.
C14_GradeSelectFailsOutOfRange ==
    (op = "gradeSelect" /\ argB \notin 0..algebra.degree) => threw

\* C16: scale(s, v) has no key whose coefficient is 0, and scale(0, v) is the
\* empty multivector.
C16_ScalePrunesZeros ==
    op = "scale" =>
        /\ \A i \in DOMAIN out : out[i][2] # 0
        /\ (argA = 0 => out = <<>>)

\* no key of v has coefficient 0
ZeroPruned(v) == \A i \in DOMAIN v : v[i][2] # 0

\* the keys of v are blades of alg, each once, in the order of alg.basis
CanonicallyOrdered(alg, v) ==
    /\ \A i \in DOMAIN v : IndexOf(alg.basis, v[i][1]) >= 0
    /\ \A i, j \in DOMAIN v :
          i < j => IndexOf(alg.basis, v[i][1]) < IndexOf(alg.basis, v[j][1])

\* the sum over the blade pairs (A in a, B in b) whose table entry is blade
\* name of tableSign * a[A] * b[B]
TableSum(table, a, b, name) ==
    SumSeq([p \in 1..(Len(a) * Len(b)) |->
        LET i == ((p - 1) \div Len(b)) + 1
            j == ((p - 1) % Len(b)) + 1
        IN  MvGet0(table[a[i][1]][b[j][1]], name) * a[i][2] * b[j][2]])

\* C17: add, sub, wedge, gp and antiWedge return a multivector with no key of
\* coefficient 0 and with its keys in canonical blade order; the coefficient
\* of each blade R of a product is the sum over the blade pairs whose table
\* entry is R of tableSign * a[A] * b[B], and terms that cancel leave no key.
C17_ResultsPrunedOrderedSummed ==
    (op \in {"add", "sub", "wedge", "gp", "antiWedge"}) =>
        /\ ZeroPruned(out)
        /\ CanonicallyOrdered(algebra, out)
        /\ \A r \in DOMAIN algebra.basis :
              MvGet0(out, algebra.basis[r]) =
                 CASE op = "add" -> MvGet0(argA, algebra.basis[r])
                                      + MvGet0(argB, algebra.basis[r])
                   [] op = "sub" -> MvGet0(argA, algebra.basis[r])
                                      - MvGet0(argB, algebra.basis[r])
                   [] op = "wedge" ->
                        TableSum(algebra.wedgeTable, argA, argB, algebra.basis[r])
                   [] op = "gp" ->
                        TableSum(algebra.geometricProductTable, argA, argB,
                                 algebra.basis[r])
                   [] op = "antiWedge" ->
                        TableSum(algebra.antiWedgeTable, argA, argB, algebra.basis[r])

\* C17 witness: wedge(a, a) for a vector a of two blades with coefficients
\* that are not equal, whose cross terms cancel and leave no key
C17_Witness ==
    /\ op = "wedge"
    /\ Len(argA) = 2
    /\ argB = argA
    /\ PureGrade(algebra, argA, 1)
    /\ argA[1][2] # argA[2][2]
    /\ out = <<>>

(***************************************************************************)
(* Sequences of facade calls on one Algebra.  The caller builds two        *)
(* operand objects (argA, argB); each call reads them and returns a new    *)
(* object or throws; any number of calls follow one another, on the same   *)
(* operands or on new ones.                                                *)
(***************************************************************************)
FacadeOperations ==
    {"add", "sub", "scale", "wedge", "antiWedge", "gp", "reverse", "gradeSelect",
     "leftContract", "dual", "unDual", "normSquared", "normalize", "sandwich",
     "inverse"}

\* a Euclidean plane, an algebra with a vector of square 0, and a child
SequenceAlgebras == {AlgebraFromCounts(2, 0, 0), AlgebraFromCounts(1, 0, 1), ShearChild}

\* the empty multivector and the multiples of one blade
SequenceOperands(alg) == OperandsUpTo(alg, 1)

\* the call alg.name(a, b), alg.name(a), alg.scale(n, a) or
\* alg.gradeSelect(a, n)
Invoke(name, alg, a, b, n) ==
    CASE name = "add" -> [threw |-> FALSE, value |-> Add(alg, a, b)]
      [] name = "sub" -> [threw |-> FALSE, value |-> Sub(alg, a, b)]
      [] name = "scale" -> [threw |-> FALSE, value |-> Scale(n, a)]
      [] name = "wedge" -> [threw |-> FALSE, value |-> Wedge(alg, a, b)]
      [] name = "antiWedge" -> [threw |-> FALSE, value |-> AntiWedge(alg, a, b)]
      [] name = "gp" -> [threw |-> FALSE, value |-> Gp(alg, a, b)]
      [] name = "reverse" -> [threw |-> FALSE, value |-> Reverse(alg, a)]
      [] name = "gradeSelect" -> [threw |-> FALSE, value |-> GradeSelect(alg, a, n)]
      [] name = "leftContract" -> [threw |-> FALSE, value |-> LeftContract(alg, a, b)]
      [] name = "dual" -> [threw |-> FALSE, value |-> Dual(alg, a)]
      [] name = "unDual" -> [threw |-> FALSE, value |-> UnDual(alg, a)]
      [] name = "normSquared" -> [threw |-> FALSE, value |-> NormSquared(alg, a)]
      [] name = "normalize" -> Normalize(alg, a)
      [] name = "sandwich" -> [threw |-> FALSE, value |-> Sandwich(alg, a, b)]
      [] name = "inverse" -> Inverse(alg, a)

\* the calls, with the number passed to scale and to gradeSelect
SequenceCalls(alg) ==
    {<<name, 0>> : name \in FacadeOperations \ {"scale", "gradeSelect"}}
    \cup ({"scale", "gradeSelect"} \X (-1..(alg.degree + 1)))

InitSequence ==
    /\ algebra \in SequenceAlgebras
    /\ op = "new"
    /\ argA = <<>>
    /\ argB = <<>>
    /\ out = <<>>
    /\ threw = FALSE

\* the caller builds one of the operands of the next calls
PrepareOperands ==
    /\ \E x \in SequenceOperands(algebra) :
        \/ argA' = x /\ argB' = argB
        \/ argA' = argA /\ argB' = x
    /\ op' = "ready"
    /\ out' = <<>>
    /\ threw' = FALSE
    /\ UNCHANGED algebra

\* a call that writes its result into its first operand
InvokeOperationInPlace ==
    /\ op # "new"
    /\ \E call \in SequenceCalls(algebra) :
        LET r == Invoke(call[1], algebra, argA, argB, call[2])
        IN  /\ op' = call[1]
            /\ out' = r.value
            /\ threw' = r.threw
            /\ argA' = IF r.threw \/ call[1] = "normSquared" THEN argA ELSE r.value
    /\ UNCHANGED <<algebra, argB>>

\* one facade call on the operands: no method assigns to a field of the
\* Algebra or to a key of an operand
InvokeOperation ==
    /\ op # "new"
    /\ \E call \in SequenceCalls(algebra) :
        LET r == Invoke(call[1], algebra, argA, argB, call[2])
        IN  /\ op' = call[1]
            /\ out' = r.value
            /\ threw' = r.threw
    /\ UNCHANGED <<algebra, argA, argB>>

NextSequence ==
    \/ PrepareOperands
    \/ InvokeOperation

SpecSequence == InitSequence /\ [][NextSequence]_vars

LabelPool == {<<"a">>, <<"b">>, <<"a", "a">>, <<"a", "b">>}

\* the basis specs of n vectors with labels of the pool
LabelledBasisMaps(n) ==
    [1..n -> [square : {1, 0, -1}, subscript : LabelPool]]

LabelParents == {AlgebraFromCounts(1, 0, 0), AlgebraFromCounts(2, 0, 0)}

\* the transforms given to a labelled child: the identity and one more
LabelTransforms(n) ==
    IF n = 1 THEN {<< <<1>> >>, << <<2>> >>}
    ELSE {<< <<1, 0>>, <<0, 1>> >>, << <<1, 1>>, <<0, 1>> >>}

InitLabels ==
    /\ algebra \in LabelParents
    /\ op = "new"
    /\ argA = <<>>
    /\ argB = <<>>
    /\ out = <<>>
    /\ threw = FALSE

\* the state after new Algebra(...) returned r.value or threw
Constructed(basisMap, transform, r) ==
    /\ op' = "construct"
    /\ argA' = basisMap
    /\ argB' = transform
    /\ threw' = r.threw
    /\ algebra' = IF r.threw THEN algebra ELSE r.value
    /\ UNCHANGED out

ConstructLabelledRoot ==
    /\ op = "new"
    /\ \E n \in 1..2 : \E basisMap \in LabelledBasisMaps(n) :
        Constructed(basisMap, <<>>, Construct(basisMap, <<>>, <<>>))

ConstructLabelledChild ==
    /\ op = "new"
    /\ \E basisMap \in LabelledBasisMaps(algebra.degree),
          transform \in LabelTransforms(algebra.degree) :
        Constructed(basisMap, transform, Construct(basisMap, <<algebra>>, transform))

NextLabels ==
    \/ ConstructLabelledRoot
    \/ ConstructLabelledChild

SpecLabels == InitLabels /\ [][NextLabels]_vars

\* two vectors of the basis spec have the same label
HasRepeatedLabel(basisMap) ==
    \E i, j \in DOMAIN basisMap : i < j /\ basisMap[i].subscript = basisMap[j].subscript

\* C15: constructing an Algebra from a basis spec in which two vectors have
\* the same label raises an error, and no Algebra is returned.
C15_RepeatedLabelsRejected ==
    (op = "construct" /\ HasRepeatedLabel(argA)) => threw

LexLess(s, t) ==
    \E k \in DOMAIN s :
        /\ s[k] < t[k]
        /\ \A j \in 1..(k - 1) : s[j] = t[j]

\* C20: the basis list has exactly one blade per bitmask 0..2^n-1, ordered by
\* grade ascending and, within a grade, lexicographically by the ascending
\* lists of declared vector positions; each name is "e" followed by the
\* labels at those positions, whatever the label strings are.
C20_BasisOrder ==
    LET n == algebra.degree
        bitmapAt(i) == algebra.basisBitmap[algebra.basis[i]]
    IN  /\ Len(algebra.basis) = Pow2(n)
        /\ \A b \in 0..(Pow2(n) - 1) :
              Cardinality({i \in DOMAIN algebra.basis : bitmapAt(i) = b}) = 1
        /\ \A i \in DOMAIN algebra.basis :
              algebra.basis[i] =
                 <<"e">> \o Flatten([q \in DOMAIN Bits(bitmapAt(i)) |->
                                       algebra.subscripts[Bits(bitmapAt(i))[q] + 1]])
        /\ \A i, j \in DOMAIN algebra.basis :
              i < j =>
                 \/ PopCount(bitmapAt(i)) < PopCount(bitmapAt(j))
                 \/ /\ PopCount(bitmapAt(i)) = PopCount(bitmapAt(j))
                    /\ LexLess(Bits(bitmapAt(i)), Bits(bitmapAt(j)))

\* C20 witness: a 4-dimensional algebra whose labels are not declared in
\* alphabetical order ("o" before "i"), where e1i (positions 0, 3) comes
\* before e2o (positions 1, 2) though its bitmask 9 is the larger
C20_Witness ==
    /\ op = "gp"
    /\ algebra.subscripts = << <<"1">>, <<"2">>, <<"o">>, <<"i">> >>
    /\ IndexOf(algebra.basis, <<"e", "o">>) < IndexOf(algebra.basis, <<"e", "i">>)
    /\ IndexOf(algebra.basis, <<"e", "1", "i">>) < IndexOf(algebra.basis, <<"e", "2", "o">>)
    /\ IndexOf(algebra.basis, <<"e", "1", "i">>) >= 0

(***************************************************************************)
(* The tables of a constructed algebra: an Algebra is constructed from a   *)
(* counts form or from an array of squares, then entries of its Cayley     *)
(* tables and dual tables are read, as cayleyMul (table[A][B]) and dual    *)
(* (table[key]) read them.                                                 *)
(***************************************************************************)
RECURSIVE Signatures(_)
\* every array of n squares out of 1, -1, 0
Signatures(n) ==
    IF n = 0 THEN {<<>>}
    ELSE {Append(s, q) : s \in Signatures(n - 1), q \in {1, -1, 0}}

\* the arrays of squares of dimension 0..MaxDim+1
TableSquares == UNION {Signatures(n) : n \in 0..(MaxDim + 1)}

\* the counts forms of dimension 0..MaxDim+1 and those the repository uses
TableCounts ==
    {t \in (0..(MaxDim + 1)) \X (0..(MaxDim + 1)) \X (0..(MaxDim + 1)) :
        t[1] + t[2] + t[3] <= MaxDim + 1} \cup NamedCountsForms

\* the basis specs that number the vectors from zero, e0, e1, ... (the labels
\* "0".."9" are the plain digits the interpreter's buildSubscriptMap accepts)
TableBasisMaps ==
    UNION {{[i \in 1..n |-> [square |-> s[i], subscript |-> DecimalDigits(i - 1)]] :
               s \in Signatures(n)} : n \in 1..MaxDim}

InitTables ==
    /\ \/ \E t \in TableCounts :
             /\ op = "counts"
             /\ argA = t
             /\ algebra = AlgebraFromCounts(t[1], t[2], t[3])
       \/ \E s \in TableSquares :
             /\ op = "squares"
             /\ argA = s
             /\ algebra = AlgebraFromSquares(s)
       \/ \E basisMap \in TableBasisMaps :
             /\ op = "basisMap"
             /\ argA = basisMap
             /\ algebra = AlgebraFromBasisMap(basisMap)
    /\ argB = <<>>
    /\ out = <<>>
    /\ threw = FALSE

\* the blade names of the algebra
BladeNames == {algebra.basis[i] : i \in DOMAIN algebra.basis}

\* the state after construction; the reads change nothing of the algebra, so
\* each is taken from there
Fresh == op \in {"counts", "squares", "basisMap"}

\* this.wedgeTable[A][B]
ReadWedgeTable ==
    /\ Fresh
    /\ \E a, b \in BladeNames : Call("wedgeTable", a, b, algebra.wedgeTable[a][b])

\* this.geometricProductTable[A][B]
ReadGeometricProductTable ==
    /\ Fresh
    /\ \E a, b \in BladeNames :
        Call("geometricProductTable", a, b, algebra.geometricProductTable[a][b])

\* this.leftDualTable[A] and this.rightDualTable[A]
ReadDualTables ==
    /\ Fresh
    /\ \E a \in BladeNames :
        Call("dualTables", a, <<>>,
             [left |-> algebra.leftDualTable[a], right |-> algebra.rightDualTable[a]])

NextTables ==
    \/ ReadWedgeTable
    \/ ReadGeometricProductTable
    \/ ReadDualTables

SpecTables == InitTables /\ [][NextTables]_vars

\* C21: the geometric product on basis blades is associative: for all basis
\* blades A, B, C, gp(gp(A, B), C) = gp(A, gp(B, C)) as multivectors.
C21_GpAssociative ==
    op = "geometricProductTable" =>
        \A c \in BladeNames :
            Gp(algebra, Gp(algebra, Blade(argA), Blade(argB)), Blade(c)) =
            Gp(algebra, Blade(argA), Gp(algebra, Blade(argB), Blade(c)))

\* the bitmask of a blade name of the algebra
BitmapOfName(name) == algebra.basisBitmap[name]

\* the number of pairs (i in A, j in B) with i after j in declared order
Inversions(x, y) ==
    Cardinality({p \in (DOMAIN Bits(x)) \X (DOMAIN Bits(y)) : Bits(x)[p[1]] > Bits(y)[p[2]]})

\* (-1)^k
SignOf(k) == IF k % 2 = 1 THEN -1 ELSE 1

\* C24: the wedge table entry for (A, B) is empty if and only if A and B
\* share a basis vector; otherwise it has exactly one key, the blade whose
\* bitmask is A OR B, of grade grade(A) + grade(B), with coefficient
\* (-1)^(number of pairs (i in A, j in B) with i after j in declared order).
C24_WedgeTableEntry ==
    op = "wedgeTable" =>
        LET x == BitmapOfName(argA)
            y == BitmapOfName(argB)
        IN  IF BitAnd(x, y) # 0 THEN out = <<>>
            ELSE /\ out = << <<algebra.bitmapBasis[x + y], SignOf(Inversions(x, y))>> >>
                 /\ GradeOfBasis(algebra, out[1][1]) =
                       GradeOfBasis(algebra, argA) + GradeOfBasis(algebra, argB)

\* C24 witness: e23 ^ e12 in dimension 4, where the shared vector 2 meets its
\* copy only in the second pass of the sort ([2,3,1,2] -> [2,1,2,3] ->
\* [1,2,2,3]), so the entry is empty
C24_Witness ==
    /\ op = "wedgeTable"
    /\ algebra.degree = 4
    /\ argA = <<"e", "2", "3">>
    /\ argB = <<"e", "1", "2">>
    /\ out = <<>>

\* the positions (0-based) of the vectors that blades x and y share
SharedVectors(x, y) == {Bits(BitAnd(x, y))[q] : q \in DOMAIN Bits(BitAnd(x, y))}

\* C25: the geometric-product table entry for (A, B) is empty if and only if
\* A and B share a basis vector whose square is 0; otherwise it has exactly
\* one key, the blade whose bitmask is A XOR B, with coefficient
\* (-1)^(inversions + m), m the number of shared vectors of square -1.
C25_GpTableEntry ==
    op = "geometricProductTable" =>
        LET x == BitmapOfName(argA)
            y == BitmapOfName(argB)
            shared == SharedVectors(x, y)
            m == Cardinality({i \in shared : algebra.squares[i + 1] = -1})
        IN  IF \E i \in shared : algebra.squares[i + 1] = 0
            THEN out = <<>>
            ELSE out = << <<algebra.bitmapBasis[BitXor(x, y)],
                            SignOf(Inversions(x, y) + m)>> >>

\* the pseudoscalar {e12..n: 1} of the algebra
Pseudoscalar == Blade(algebra.basis[Len(algebra.basis)])

\* C26: for every basis blade A both dual tables map A to the single blade
\* whose bitmask is A XOR (2^n - 1), with a coefficient that is +1 or -1, such
\* that wedge(A, rightDual(A)) and wedge(leftDual(A), A) are the pseudoscalar
\* with coefficient +1.
C26_DualTableEntry ==
    op = "dualTables" =>
        LET complement ==
                algebra.bitmapBasis[BitXor(BitmapOfName(argA), Pow2(algebra.degree) - 1)]
        IN  /\ Len(out.left) = 1 /\ Len(out.right) = 1
            /\ out.left[1][1] = complement /\ out.right[1][1] = complement
            /\ IsNumber(out.left[1][2]) /\ IsNumber(out.right[1][2])
            /\ out.left[1][2] \in {1, -1} /\ out.right[1][2] \in {1, -1}
            /\ Wedge(algebra, Blade(argA), out.right) = Pseudoscalar
            /\ Wedge(algebra, out.left, Blade(argA)) = Pseudoscalar

\* C26 witness: in dimension 3 the blade e2, whose complement e13 takes the
\* sign -1 on both sides (e2 ^ e13 = e13 ^ e2 = -e123)
C26_Witness ==
    /\ op = "dualTables"
    /\ algebra.degree = 3
    /\ argA = VectorName(algebra, 2)
    /\ out.left = << <<VectorName(algebra, 1) \o algebra.subscripts[3], -1>> >>
    /\ out.right = out.left

\* the blades of alg of grade k (set bits of the bitmask), in canonical order
BladesOfGrade(alg, k) ==
    SelectSeq(alg.basis, LAMBDA name : PopCount(alg.basisBitmap[name]) = k)

\* basisGrades of alg lists, for every k in 0..n, the blades of grade k
GradesListed(alg) ==
    \A k \in 0..alg.degree :
        /\ k \in DOMAIN alg.basisGrades
        /\ alg.basisGrades[k] = BladesOfGrade(alg, k)
        /\ \A i \in DOMAIN alg.basisGrades[k] :
              GradeOfBasis(alg, alg.basisGrades[k][i]) = k

\* C27: for every constructed algebra, whatever the label strings (including
\* multi-character labels), basisGrades[k] is exactly the list of the blades
\* whose bitmask has k set bits, in canonical order, for every k in 0..n, and
\* gradeOfBasis(b) = k for every b in basisGrades[k].
C27_BasisGradesByPopCount ==
    (op = "construct" /\ ~threw /\ ~HasRepeatedLabel(argA)) => GradesListed(algebra)

\* the sequence s without its element i
Without(s, i) == SubSeq(s, 1, i - 1) \o SubSeq(s, i + 1, Len(s))

RECURSIVE Det(_)
\* the determinant of a square matrix, expanded along its first row
Det(mat) ==
    IF Len(mat) = 1 THEN mat[1][1]
    ELSE SumSeq([j \in 1..Len(mat) |->
            SignOf(j + 1) * mat[1][j] *
            Det([r \in 1..(Len(mat) - 1) |-> Without(mat[r + 1], j)])])

\* the rows and columns (1-based) a blade of alg selects
Positions(alg, name) ==
    [q \in DOMAIN Bits(alg.basisBitmap[name]) |-> Bits(alg.basisBitmap[name])[q] + 1]

\* the k-th compound matrix of the child's M[1]: rows by the parent's grade-k
\* blades, columns by the child's, each entry the minor of M[1] on the rows
\* and columns of the two blades
Compound(alg, k) ==
    LET par == alg.parent[1]
    IN  [i \in 1..Len(par.basisGrades[k]) |-> [j \in 1..Len(alg.basisGrades[k]) |->
            LET rows == Positions(par, par.basisGrades[k][i])
                cols == Positions(alg, alg.basisGrades[k][j])
            IN  Det([r \in 1..k |-> [c \in 1..k |-> alg.m[1][rows[r]][cols[c]]]])]]

\* C28: for every child algebra with an n x n transform over a parent of the
\* same dimension and every k in 2..n, M[k] is the k-th compound matrix of
\* M[1], M[n] is [[det M[1]]], and G[k] = M[k]^T * G_parent[k] * M[k].
C28_CompoundMatrices ==
    algebra.parent # <<>> =>
        /\ \A k \in 2..algebra.degree :
              /\ algebra.m[k] = Compound(algebra, k)
              /\ algebra.g[k] =
                    MatrixMul(MatrixTranspose(algebra.m[k]),
                              MatrixMul(algebra.parent[1].g[k], algebra.m[k]))
        /\ algebra.degree >= 2 =>
              algebra.m[algebra.degree] = << <<Det(algebra.m[1])>> >>

\* C28 witness: the 2D conformal algebra, of dimension 4, whose M[2] (6 x 6)
\* and M[3] (4 x 4) are not diagonal and whose M[4] is the determinant of
\* twice its transform
C28_Witness ==
    /\ IsCGA2D(algebra)
    /\ \E i, j \in 1..6 : i # j /\ algebra.m[2][i][j] # 0
    /\ \E i, j \in 1..4 : i # j /\ algebra.m[3][i][j] # 0
    /\ algebra.m[4] = << <<Det(CGA2DTransformTimes2)>> >>
    /\ algebra.m[4][1][1] \notin {0, 1}

(***************************************************************************)
(* Algebra.makeDualTable of the earlier draft, which finds the complement  *)
(* by array position: ed = this.basis[2**this.degree - 1 - a]              *)
(***************************************************************************)
\* the positional table reading the wedge entry of the other side
MakeDualTablePositionalSidesSwapped(side, degree, basis, wedgeTable) ==
    [ea \in {basis[i] : i \in DOMAIN basis} |->
        LET a == IndexOf(basis, ea)
            ed == basis[Pow2(degree) - 1 - a + 1]
            signVector == IF side = "left" THEN wedgeTable[ea][ed]
                                           ELSE wedgeTable[ed][ea]
            signBasis == GetBasis(signVector)
        IN  << <<ed, MvGet(signVector, signBasis)>> >>]

MakeDualTablePositional(side, degree, basis, wedgeTable) ==
    [ea \in {basis[i] : i \in DOMAIN basis} |->
        LET a == IndexOf(basis, ea)
            ed == basis[Pow2(degree) - 1 - a + 1]
            signVector == IF side = "left" THEN wedgeTable[ed][ea]
                                           ELSE wedgeTable[ea][ed]
            signBasis == GetBasis(signVector)
        IN  << <<ed, MvGet(signVector, signBasis)>> >>]

\* C29: in the canonical blade order the blade at index 2^n-1-a is the
\* bitmask complement of the blade at index a, for every index a, and the
\* dual tables computed by bitmask lookup coincide entry for entry with the
\* dual tables computed by array position on the same order.
C29_PositionalDualTables ==
    op = "dualTables" =>
        LET n == algebra.degree
        IN  /\ \A a \in 0..(Pow2(n) - 1) :
                  BitmapOfName(algebra.basis[Pow2(n) - 1 - a + 1]) =
                     BitXor(BitmapOfName(algebra.basis[a + 1]), Pow2(n) - 1)
            /\ algebra.leftDualTable =
                  MakeDualTablePositional("left", n, algebra.basis, algebra.wedgeTable)
            /\ algebra.rightDualTable =
                  MakeDualTablePositional("right", n, algebra.basis, algebra.wedgeTable)

\* C29 witness: a dimension-4 algebra, where the six grade-2 blades are in
\* the order 3, 5, 9, 6, 10, 12 of bitmasks, which is not numeric, and the
\* entry read is that of e14 (index 7), whose complement e23 is at index 8
C29_Witness ==
    /\ op = "dualTables"
    /\ algebra.degree = 4
    /\ argA = <<"e", "1", "4">>
    /\ algebra.basis[8] = argA
    /\ algebra.basis[9] = <<"e", "2", "3">>
    /\ out.right = Blade(<<"e", "2", "3">>)

\* C30: for the counts form Algebra(p, q, z) the basis vectors are labelled
\* '1'..'p+q+z' and ordered zero-square first, then positive, then negative:
\* vectors 1..z square to 0, z+1..z+p to +1 and z+p+1..z+p+q to -1; the
\* degree is p+q+z and the basis has 2^degree blades.
C30_CountsFormOrder ==
    op = "counts" =>
        LET p == argA[1]
            q == argA[2]
            z == argA[3]
            n == p + q + z
            square(i) == IF i <= z THEN 0 ELSE IF i <= z + p THEN 1 ELSE -1
        IN  /\ algebra.degree = n
            /\ Len(algebra.basis) = Pow2(n)
            /\ algebra.positive = p /\ algebra.negative = q /\ algebra.zero = z
            /\ algebra.subscripts = [i \in 1..n |-> DecimalDigits(i)]
            /\ \A i \in 1..n :
                  /\ algebra.squares[i] = square(i)
                  /\ algebra.g[1][i][i] = square(i)
                  /\ Gp(algebra, Blade(<<"e">> \o DecimalDigits(i)),
                                 Blade(<<"e">> \o DecimalDigits(i))) =
                        IF square(i) = 0 THEN <<>> ELSE << <<<<"e">>, square(i)>> >>

\* C30 witness: Algebra(3,0,1), where e1 and not e4 squares to 0
C30_Witness ==
    /\ op = "counts"
    /\ argA = <<3, 0, 1>>
    /\ Gp(algebra, Blade(<<"e", "1">>), Blade(<<"e", "1">>)) = <<>>
    /\ Gp(algebra, Blade(<<"e", "4">>), Blade(<<"e", "4">>)) = Blade(<<"e">>)

(***************************************************************************)
(* interpreter.ts.  A source text is a sequence of characters; a character *)
(* outside ASCII is written by its code point ("U+2227" is the wedge       *)
(* sign).  A token is [type, value, pos]; an AST node is                    *)
(* [type, op, value, name, args] with the fields a node type does not have  *)
(* left <<>>, 0, <<>>.                                                      *)
(***************************************************************************)
WedgeSign == "U+2227"
VeeSign == "U+2228"
RightFloorSign == "U+230B"
LeftFloorSign == "U+230A"

Digits == {"0", "1", "2", "3", "4", "5", "6", "7", "8", "9"}

\* /[A-Za-z_]/
IdentStartChars ==
    {"a", "b", "c", "d", "e", "f", "g", "h", "i", "j", "k", "l", "m",
     "n", "o", "p", "q", "r", "s", "t", "u", "v", "w", "x", "y", "z",
     "A", "B", "C", "D", "E", "F", "G", "H", "I", "J", "K", "L", "M",
     "N", "O", "P", "Q", "R", "S", "T", "U", "V", "W", "X", "Y", "Z", "_"}

\* const unicodeOps = new Set([...])
UnicodeOps == {WedgeSign, VeeSign, RightFloorSign, LeftFloorSign}

IsIdentStart(ch) == ch \in IdentStartChars /\ ch \notin UnicodeOps
IsIdentCont(ch) == ch \in IdentStartChars \cup Digits

\* source[i] ?? "" for a 0-based i
CharAt(source, i) == IF i >= 0 /\ i < Len(source) THEN source[i + 1] ELSE ""

\* buildSubscriptMap for an algebra whose labels are ASCII: each label maps
\* to itself (the branches for Unicode subscript digits, +, - and infinity
\* add aliases only for labels outside ASCII)
BuildSubscriptMap(alg) ==
    [s \in {alg.subscripts[i] : i \in DOMAIN alg.subscripts} |-> s]

IsSubscriptChar(alg, ch) == <<ch>> \in DOMAIN BuildSubscriptMap(alg)

Token(type, value, pos) == [type |-> type, value |-> value, pos |-> pos]

\* the first label of sorted that source has at pos, as <<label>>, or <<>>
FirstMatch(source, sorted, pos) ==
    LET hits == SelectSeq(sorted, LAMBDA sub : StartsWith(source, sub, pos))
    IN  IF hits = <<>> THEN <<>> ELSE <<hits[1]>>

RECURSIVE ReadBasisParts(_, _, _, _)
\* the while loop of tryReadBasisSuffix: [parts, end]
ReadBasisParts(source, alg, pos, parts) ==
    IF pos >= Len(source) THEN [parts |-> parts, end |-> pos]
    ELSE LET m == FirstMatch(source, SortLongestFirst(alg.subscripts), pos)
         IN  IF m # <<>>
             THEN ReadBasisParts(source, alg, pos + Len(m[1]), Append(parts, m[1]))
             ELSE IF IsSubscriptChar(alg, CharAt(source, pos))
             THEN ReadBasisParts(source, alg, pos + 1,
                     Append(parts, BuildSubscriptMap(alg)[<<CharAt(source, pos)>>]))
             ELSE [parts |-> parts, end |-> pos]

\* tryReadBasisSuffix(start): [threw, null, canonical, end]
TryReadBasisSuffix(source, alg, start) ==
    LET r == ReadBasisParts(source, alg, start, <<>>)
        basisName == <<"e">> \o Flatten(r.parts)
    IN  IF r.parts = <<>>
        THEN [threw |-> FALSE, null |-> TRUE, canonical |-> <<>>, end |-> start]
        ELSE IF IndexOf(alg.basis, basisName) < 0
        THEN [threw |-> TRUE, null |-> FALSE, canonical |-> basisName, end |-> r.end]
        ELSE [threw |-> FALSE, null |-> FALSE, canonical |-> basisName, end |-> r.end]

RECURSIVE SkipWhile(_, _, _)
\* the first position from i on whose character is not in chars
SkipWhile(source, i, chars) ==
    IF i < Len(source) /\ source[i + 1] \in chars
    THEN SkipWhile(source, i + 1, chars)
    ELSE i

RECURSIVE SkipComment(_, _)
SkipComment(source, i) ==
    IF i < Len(source) /\ source[i + 1] # "\n" THEN SkipComment(source, i + 1) ELSE i

\* the characters of source from i up to but not including j
Slice(source, i, j) == SubSeq(source, i + 1, j)

\* the symbol characters of the switch, with the value each one is given
SymbolTokens ==
    [ch \in {"+", "-", "*", "^", "&", "|", "~", "!", "=", "(", ")", ","} |->
        CASE ch = "^" -> [type |-> "op", value |-> <<WedgeSign>>]
          [] ch = "&" -> [type |-> "op", value |-> <<VeeSign>>]
          [] ch = "|" -> [type |-> "op", value |-> <<RightFloorSign>>]
          [] ch = "=" -> [type |-> "assign", value |-> <<ch>>]
          [] ch = "(" -> [type |-> "lparen", value |-> <<ch>>]
          [] ch = ")" -> [type |-> "rparen", value |-> <<ch>>]
          [] ch = "," -> [type |-> "comma", value |-> <<ch>>]
          [] OTHER -> [type |-> "op", value |-> <<ch>>]]

RECURSIVE TokenizeFrom(_, _, _, _)
\* the main loop of tokenize: [threw, tokens]
TokenizeFrom(source, alg, i, tokens) ==
    LET pos == i
        ch == CharAt(source, i)
        last == IF tokens = <<>> THEN <<>> ELSE <<tokens[Len(tokens)]>>
    IN  IF i >= Len(source)
        THEN [threw |-> FALSE, tokens |-> Append(tokens, Token("eof", <<>>, Len(source)))]
        ELSE IF ch \in {" ", "\t", "\r"}
        THEN TokenizeFrom(source, alg, i + 1, tokens)
        ELSE IF ch = "/" /\ CharAt(source, i + 1) = "/"
        THEN TokenizeFrom(source, alg, SkipComment(source, i), tokens)
        ELSE IF ch = "\n"
        THEN TokenizeFrom(source, alg, i + 1,
                IF last # <<>> /\ last[1].type \notin
                      {"op", "assign", "comma", "lparen", "newline"}
                THEN Append(tokens, Token("newline", <<"\n">>, pos))
                ELSE tokens)
        ELSE IF ch = ";"
        THEN TokenizeFrom(source, alg, i + 1,
                IF last # <<>> /\ last[1].type # "newline"
                THEN Append(tokens, Token("newline", <<";">>, pos))
                ELSE tokens)
        ELSE IF ch \in Digits \/ (ch = "." /\ CharAt(source, i + 1) \in Digits)
        THEN LET whole == SkipWhile(source, i, Digits)
                 end == IF CharAt(source, whole) = "."
                        THEN SkipWhile(source, whole + 1, Digits)
                        ELSE whole
             IN  TokenizeFrom(source, alg, end,
                    Append(tokens, Token("number", Slice(source, i, end), pos)))
        ELSE IF ch = "e" /\ IsSubscriptChar(alg, CharAt(source, i + 1))
        THEN LET b == TryReadBasisSuffix(source, alg, i + 1)
                 end == SkipWhile(source, i + 1, IdentStartChars \cup Digits)
             IN  IF b.threw THEN [threw |-> TRUE, tokens |-> tokens]
                 ELSE IF ~b.null
                 THEN TokenizeFrom(source, alg, b.end,
                         Append(tokens, Token("basis", b.canonical, pos)))
                 ELSE TokenizeFrom(source, alg, end,
                         Append(tokens, Token("name", Slice(source, i, end), pos)))
        ELSE IF IsIdentStart(ch)
        THEN LET end == SkipWhile(source, i, IdentStartChars \cup Digits)
             IN  TokenizeFrom(source, alg, end,
                    Append(tokens, Token("name", Slice(source, i, end), pos)))
        ELSE IF ch \in UnicodeOps
        THEN TokenizeFrom(source, alg, i + 1, Append(tokens, Token("op", <<ch>>, pos)))
        ELSE IF ch \in DOMAIN SymbolTokens
        THEN TokenizeFrom(source, alg, i + 1,
                Append(tokens, Token(SymbolTokens[ch].type, SymbolTokens[ch].value, pos)))
        ELSE [threw |-> TRUE, tokens |-> tokens]

Tokenize(source, alg) == TokenizeFrom(source, alg, 0, <<>>)

(***************************************************************************)
(* parse: the Pratt parser.  Every parse function returns                  *)
(* [threw, expr, cursor].                                                  *)
(***************************************************************************)
\* the own property names of Object.prototype, which every object literal
\* (INFIX_BP, the environment) inherits
ObjectPrototypeNames ==
    { <<"c", "o", "n", "s", "t", "r", "u", "c", "t", "o", "r">>,
      <<"t", "o", "S", "t", "r", "i", "n", "g">>,
      <<"v", "a", "l", "u", "e", "O", "f">> }

\* INFIX_BP as laid out right-associative: [left, right] with right = left
InfixBPRightAssociative ==
    [v \in {<<"+">>, <<"-">>, <<WedgeSign>>, <<VeeSign>>, <<"*">>,
            <<RightFloorSign>>, <<LeftFloorSign>>} |->
        CASE v \in {<<"+">>, <<"-">>} -> <<10, 10>>
          [] v \in {<<WedgeSign>>, <<VeeSign>>} -> <<20, 20>>
          [] OTHER -> <<30, 30>>]

\* const INFIX_BP: [left binding power, right binding power]
InfixBP ==
    [v \in {<<"+">>, <<"-">>, <<WedgeSign>>, <<VeeSign>>, <<"*">>,
            <<RightFloorSign>>, <<LeftFloorSign>>} |->
        CASE v \in {<<"+">>, <<"-">>} -> <<10, 11>>
          [] v \in {<<WedgeSign>>, <<VeeSign>>} -> <<20, 21>>
          [] OTHER -> <<30, 31>>]

\* const PREFIX_BP
PrefixBP == [v \in {<<"~">>, <<"!">>, <<"-">>} |-> 40]

\* INFIX_BP[t.value] as <<bp>> or <<>> for undefined.  An inherited member
\* is truthy and its [0] and [1] are undefined: `bp[0] < minBP` is then false
\* for every minBP, as for a left power above all others, and the right power
\* undefined never stops the operand's loop, as a right power of 0
InfixLookup(value) ==
    IF value \in DOMAIN InfixBP THEN <<InfixBP[value]>>
    ELSE IF value \in ObjectPrototypeNames THEN << <<1000, 0>> >>
    ELSE <<>>

Node(type, o, value, name, args) ==
    [type |-> type, op |-> o, value |-> value, name |-> name, args |-> args]

NumberNode(value) == Node("number", <<>>, value, <<>>, <<>>)
BasisNode(name) == Node("basis", <<>>, 0, name, <<>>)
NameNode(name) == Node("name", <<>>, 0, name, <<>>)
BinaryNode(o, left, right) == Node("binary", o, 0, <<>>, <<left, right>>)
UnaryNode(o, operand) == Node("unary", o, 0, <<>>, <<operand>>)
ImplicitMulNode(scalar, basis) == Node("implicit_mul", <<>>, scalar, basis, <<>>)
CallNode(name, args) == Node("call", <<>>, 0, name, args)

Parsed(expr, cursor) == [threw |-> FALSE, expr |-> expr, cursor |-> cursor]
ParseError(cursor) == [threw |-> TRUE, expr |-> NumberNode(0), cursor |-> cursor]

RECURSIVE DigitsValue(_)
\* parseFloat of a token of digits (the sources of the model hold integers)
DigitsValue(chars) ==
    IF chars = <<>> THEN 0
    ELSE 10 * DigitsValue(SubSeq(chars, 1, Len(chars) - 1)) +
         (CHOOSE d \in 0..9 : DecimalDigits(d) = <<chars[Len(chars)]>>)

RECURSIVE ParseExpr(_, _, _)
RECURSIVE ParseInfix(_, _, _, _)
RECURSIVE ParsePrefix(_, _)
RECURSIVE ParseAtom(_, _)
RECURSIVE ParseArgs(_, _, _)

\* the while (true) loop of parseExpr
ParseInfix(tokens, cursor, left, minBP) ==
    LET t == tokens[cursor + 1]
        bp == InfixLookup(t.value)
    IN  IF t.type \in {"eof", "newline", "semicolon", "rparen", "comma", "assign"}
        THEN Parsed(left, cursor)
        ELSE IF bp = <<>> \/ bp[1][1] < minBP
        THEN Parsed(left, cursor)
        ELSE LET right == ParseExpr(tokens, cursor + 1, bp[1][2])
             IN  IF right.threw THEN right
                 ELSE ParseInfix(tokens, right.cursor,
                                 BinaryNode(t.value, left, right.expr), minBP)

ParseExpr(tokens, cursor, minBP) ==
    LET left == ParsePrefix(tokens, cursor)
    IN  IF left.threw THEN left
        ELSE ParseInfix(tokens, left.cursor, left.expr, minBP)

ParsePrefix(tokens, cursor) ==
    LET t == tokens[cursor + 1]
    IN  IF t.type = "op" /\ t.value \in DOMAIN PrefixBP
        THEN LET operand == ParseExpr(tokens, cursor + 1, PrefixBP[t.value])
             IN  IF operand.threw THEN operand
                 ELSE Parsed(UnaryNode(t.value, operand.expr), operand.cursor)
        ELSE ParseAtom(tokens, cursor)

\* the arguments after the first: while (peek().type === "comma") ...
ParseArgs(tokens, cursor, args) ==
    IF tokens[cursor + 1].type = "comma"
    THEN LET a == ParseExpr(tokens, cursor + 1, 0)
         IN  IF a.threw THEN [threw |-> TRUE, args |-> args, cursor |-> a.cursor]
             ELSE ParseArgs(tokens, a.cursor, Append(args, a.expr))
    ELSE [threw |-> FALSE, args |-> args, cursor |-> cursor]

ParseAtom(tokens, cursor) ==
    LET t == tokens[cursor + 1]
    IN  CASE t.type = "number" ->
                IF tokens[cursor + 2].type = "basis"
                THEN Parsed(ImplicitMulNode(DigitsValue(t.value), tokens[cursor + 2].value),
                            cursor + 2)
                ELSE Parsed(NumberNode(DigitsValue(t.value)), cursor + 1)
          [] t.type = "basis" -> Parsed(BasisNode(t.value), cursor + 1)
          [] t.type = "name" ->
                IF tokens[cursor + 2].type = "lparen"
                THEN LET first == IF tokens[cursor + 3].type # "rparen"
                                  THEN ParseExpr(tokens, cursor + 2, 0)
                                  ELSE Parsed(NumberNode(0), cursor + 2)
                         rest == IF tokens[cursor + 3].type # "rparen"
                                 THEN ParseArgs(tokens, first.cursor, <<first.expr>>)
                                 ELSE [threw |-> FALSE, args |-> <<>>, cursor |-> cursor + 2]
                     IN  IF first.threw \/ rest.threw THEN ParseError(cursor)
                         ELSE IF tokens[rest.cursor + 1].type # "rparen"
                         THEN ParseError(rest.cursor)
                         ELSE Parsed(CallNode(t.value, rest.args), rest.cursor + 1)
                ELSE Parsed(NameNode(t.value), cursor + 1)
          [] t.type = "lparen" ->
                LET e == ParseExpr(tokens, cursor + 1, 0)
                IN  IF e.threw THEN e
                    ELSE IF tokens[e.cursor + 1].type # "rparen" THEN ParseError(e.cursor)
                    ELSE Parsed(e.expr, e.cursor + 1)
          [] OTHER -> ParseError(cursor)

RECURSIVE SkipSeparators(_, _)
SkipSeparators(tokens, cursor) ==
    IF tokens[cursor + 1].type \in {"newline", "semicolon"}
    THEN SkipSeparators(tokens, cursor + 1)
    ELSE cursor

\* parseStatement: [threw, statement, cursor], a statement being [name, expr]
ParseStatement(tokens, cursor) ==
    LET t == tokens[cursor + 1]
        e == ParseExpr(tokens, cursor + 2, 0)
        none == [name |-> <<>>, expr |-> NumberNode(0)]
    IN  IF t.type # "name" \/ tokens[cursor + 2].type # "assign"
        THEN [threw |-> TRUE, statement |-> none, cursor |-> cursor]
        ELSE IF e.threw THEN [threw |-> TRUE, statement |-> none, cursor |-> e.cursor]
        ELSE [threw |-> FALSE, statement |-> [name |-> t.value, expr |-> e.expr],
              cursor |-> e.cursor]

RECURSIVE ParseStatements(_, _, _)
\* while (peek().type !== "eof") { ... }: [threw, program]
ParseStatements(tokens, cursor, program) ==
    IF tokens[cursor + 1].type = "eof" THEN [threw |-> FALSE, program |-> program]
    ELSE LET s == ParseStatement(tokens, cursor)
         IN  IF s.threw THEN [threw |-> TRUE, program |-> program]
             ELSE IF tokens[s.cursor + 1].type \in {"newline", "semicolon"}
             THEN ParseStatements(tokens, SkipSeparators(tokens, s.cursor),
                                  Append(program, s.statement))
             ELSE IF tokens[s.cursor + 1].type # "eof"
             THEN [threw |-> TRUE, program |-> program]
             ELSE ParseStatements(tokens, s.cursor, Append(program, s.statement))

Parse(tokens) == ParseStatements(tokens, SkipSeparators(tokens, 0), <<>>)

(***************************************************************************)
(* evalExpr, evaluate, gaEvaluate.  An environment is a sequence of        *)
(* <<name, value>> in insertion order, as a JavaScript object keeps its    *)
(* own properties; a value is a multivector or InheritedMember.            *)
(***************************************************************************)
\* what env[name] yields for a name the environment does not own and
\* Object.prototype does: a function, which is not undefined and which the
\* operations of Algebra read as an object without keys
InheritedMember == << << <<"f", "u", "n", "c", "t", "i", "o", "n">>, 0 >> >>

\* the operand an operation of Algebra sees: `for (key in v)` and v[key]
AsMultiVector(v) == IF v = InheritedMember THEN <<>> ELSE v

\* env[name]: <<value>>, or <<>> for undefined
EnvLookup(env, name) ==
    IF MvHas(env, name) THEN <<MvGet(env, name)>>
    ELSE IF name \in ObjectPrototypeNames THEN <<InheritedMember>>
    ELSE <<>>

\* env[name] = value
EnvSet(env, name, value) == MvSet(env, name, value)

Value(v) == [threw |-> FALSE, value |-> v]
Thrown == [threw |-> TRUE, value |-> <<>>]

RECURSIVE EvalExpr(_, _, _)
EvalExpr(expr, env, alg) ==
    CASE expr.type = "number" ->
            Value(IF expr.value = 0 THEN <<>> ELSE << <<<<"e">>, expr.value>> >>)
      [] expr.type = "basis" -> Value(Blade(expr.name))
      [] expr.type = "implicit_mul" -> Value(Scale(expr.value, Blade(expr.name)))
      [] expr.type = "name" ->
            LET v == EnvLookup(env, expr.name)
            IN  IF v = <<>> THEN Thrown ELSE Value(v[1])
      [] expr.type = "binary" ->
            LET l == EvalExpr(expr.args[1], env, alg)
                r == EvalExpr(expr.args[2], env, alg)
                a == AsMultiVector(l.value)
                b == AsMultiVector(r.value)
            IN  IF l.threw \/ r.threw THEN Thrown
                ELSE CASE expr.op = <<WedgeSign>> -> Value(Wedge(alg, a, b))
                       [] expr.op = <<VeeSign>> -> Value(AntiWedge(alg, a, b))
                       [] expr.op = <<"*">> -> Value(Gp(alg, a, b))
                       [] expr.op \in {<<RightFloorSign>>, <<LeftFloorSign>>} ->
                             Value(LeftContract(alg, a, b))
                       [] expr.op = <<"+">> -> Value(Add(alg, a, b))
                       [] expr.op = <<"-">> -> Value(Sub(alg, a, b))
                       [] OTHER -> Thrown
      [] expr.type = "unary" ->
            LET v == EvalExpr(expr.args[1], env, alg)
                a == AsMultiVector(v.value)
            IN  IF v.threw THEN Thrown
                ELSE CASE expr.op = <<"~">> -> Value(Reverse(alg, a))
                       [] expr.op = <<"!">> -> Value(Dual(alg, a))
                       [] expr.op = <<"-">> -> Value(Scale(-1, a))
                       [] OTHER -> Thrown
      [] expr.type = "call" ->
            LET args == [i \in DOMAIN expr.args |-> EvalExpr(expr.args[i], env, alg)]
                first == AsMultiVector(args[1].value)
            IN  IF \E i \in DOMAIN args : args[i].threw THEN Thrown
                ELSE CASE expr.name = <<"g", "r", "a", "d", "e">> ->
                             IF Len(expr.args) < 2 \/ expr.args[2].type # "number"
                             THEN Thrown
                             ELSE Value(GradeSelect(alg, first, expr.args[2].value))
                       [] expr.name = <<"n", "o", "r", "m">> -> Normalize(alg, first)
                       [] expr.name = <<"i", "n", "v">> -> Inverse(alg, first)
                       [] OTHER -> Thrown

RECURSIVE SeedBasis(_, _, _)
\* for (const b of algebra.basis) env[b] = { [b]: 1 }
SeedBasis(env, basis, i) ==
    IF i > Len(basis) THEN env
    ELSE SeedBasis(EnvSet(env, basis[i], Blade(basis[i])), basis, i + 1)

\* the environment evaluate starts its loop with: { ...seed } and the blades
InitialEnv(alg, seed) == SeedBasis(seed, alg.basis, 1)

\* one turn of the loop of evaluate: [threw, value], value the environment
ExecuteStatement(env, stmt, alg) ==
    LET v == EvalExpr(stmt.expr, env, alg)
    IN  IF v.threw THEN [threw |-> TRUE, value |-> env]
        ELSE [threw |-> FALSE, value |-> EnvSet(env, stmt.name, v.value)]

\* the filter of gaEvaluate: the entries whose name is not a blade
UserEnv(alg, fullEnv) == SelectSeq(fullEnv, LAMBDA e : IndexOf(alg.basis, e[1]) < 0)

(***************************************************************************)
(* The interpreter as a state machine: gaEvaluate(source, algebra, seed)   *)
(* is called, the source is tokenized and parsed, the statements are       *)
(* executed one by one, and the user environment is returned.  argA holds  *)
(* the call's source and seed, argB the parsed program and the number of   *)
(* statements attempted, out the environment.                              *)
(***************************************************************************)
\* the most binary operands of a generated expression
MaxOperands == 3
\* the most statements of a generated program
MaxStatements == 3

R3 == AlgebraFromCounts(3, 0, 0)

RECURSIVE Join(_, _)
\* the texts of parts with the text seps[i] after part i
Join(parts, seps) ==
    IF Len(parts) = 1 THEN parts[1]
    ELSE Join(SubSeq(parts, 1, Len(parts) - 1), seps) \o seps[Len(parts) - 1]
         \o parts[Len(parts)]

AtomTexts == << <<"e", "1">>, <<"e", "2">>, <<"e", "3">>, <<"e", "1", "2">> >>
BinaryTexts == {"+", "-", "*", "^", "&", "|"}
PrefixTexts == {"~", "!", "-"}

\* "r = " and operands e1, e2, ... joined by the operators ops, the operand
\* at position `at` carrying the prefix operator (at = 0: none)
FlatSource(ops, at, prefix) ==
    <<"r", " ", "=", " ">> \o
    Join([i \in 1..(Len(ops) + 1) |->
            (IF i = at THEN <<prefix>> ELSE <<>>) \o AtomTexts[i]],
         [i \in 1..Len(ops) |-> <<" ", ops[i], " ">>])

PrecedenceCalls ==
    { [source |-> FlatSource(ops, at, prefix), seed |-> <<>>] :
        <<ops, at, prefix>> \in
            { t \in (UNION {[1..n -> BinaryTexts] : n \in 1..(MaxOperands - 1)})
                    \X (0..MaxOperands) \X PrefixTexts :
                /\ t[2] <= Len(t[1]) + 1
                /\ t[2] = 0 => t[3] = "-" } }

\* the expressions of section 7 of the tests and 'a - b - c' over a seed
NamedCalls ==
    { [source |-> <<"A", " ", "=", " ", "e", "1", " ", "*", " ", "e", "2", " ",
                    WedgeSign, " ", "e", "3">>, seed |-> <<>>],
      [source |-> <<"A", " ", "=", " ", "e", "1", " ", WedgeSign, " ", "e", "2", " ",
                    "+", " ", "e", "3">>, seed |-> <<>>],
      [source |-> <<"r", " ", "=", " ", "a", " ", "-", " ", "b", " ", "-", " ", "c">>,
       seed |-> << << <<"a">>, Blade(<<"e", "1">>) >>,
                   << <<"b">>, Blade(<<"e", "2">>) >>,
                   << <<"c">>, Blade(<<"e", "3">>) >> >>] }

\* the statements of the generated programs: A or B assigned a blade, a
\* name, a sum of names, or a name that nothing binds
StatementTexts ==
    { <<n, " ", "=", " ">> \o e :
        n \in {"A", "B"},
        e \in { <<"e", "1">>, <<"B">>, <<"A", " ", "+", " ", "B">>,
                <<"t", "o", "S", "t", "r", "i", "n", "g">> } }

ProgramCalls ==
    { [source |-> Join(stmts, [i \in 1..(Len(stmts) - 1) |->
                                 IF i % 2 = 1 THEN <<"\n">> ELSE <<";", " ">>]),
       seed |-> seed] :
        stmts \in UNION {[1..n -> StatementTexts] : n \in 1..MaxStatements},
        seed \in {<<>>, << << <<"B">>, Blade(<<"e", "2">>) >> >>} }

InitInterpreter ==
    /\ algebra = R3
    /\ op = "gaEvaluate"
    /\ argA \in PrecedenceCalls \cup NamedCalls \cup ProgramCalls
    /\ argB = [program |-> <<>>, pc |-> 0]
    /\ out = <<>>
    /\ threw = FALSE

\* tokenize and parse; evaluate starts with { ...seed } and the blades
ParseSource ==
    /\ op = "gaEvaluate"
    /\ LET t == Tokenize(argA.source, algebra)
           p == IF t.threw THEN [threw |-> TRUE, program |-> <<>>] ELSE Parse(t.tokens)
       IN  /\ op' = IF p.threw THEN "parse" ELSE "evaluate"
           /\ threw' = p.threw
           /\ argB' = [program |-> p.program, pc |-> 0]
           /\ out' = IF p.threw THEN <<>> ELSE InitialEnv(algebra, argA.seed)
    /\ UNCHANGED <<algebra, argA>>

\* for (const stmt of program) env[stmt.name] = evalExpr(stmt.expr, env, algebra)
ExecuteNext ==
    /\ op = "evaluate"
    /\ ~threw
    /\ argB.pc < Len(argB.program)
    /\ LET r == ExecuteStatement(out, argB.program[argB.pc + 1], algebra)
       IN  /\ threw' = r.threw
           /\ out' = r.value
    /\ argB' = [argB EXCEPT !.pc = argB.pc + 1]
    /\ UNCHANGED <<algebra, op, argA>>

\* return userEnv
ReturnEnv ==
    /\ op = "evaluate"
    /\ ~threw
    /\ argB.pc = Len(argB.program)
    /\ op' = "returned"
    /\ out' = UserEnv(algebra, out)
    /\ UNCHANGED <<algebra, argA, argB, threw>>

NextInterpreter ==
    \/ ParseSource
    \/ ExecuteNext
    \/ ReturnEnv

SpecInterpreter == InitInterpreter /\ [][NextInterpreter]_vars

\* the level of a binary operator in the claimed precedence: + and - lowest,
\* then wedge and anti-wedge, then * and the contraction
Level(o) ==
    CASE o \in {<<"+">>, <<"-">>} -> 1
      [] o \in {<<WedgeSign>>, <<VeeSign>>} -> 2
      [] OTHER -> 3

RECURSIVE WithPrefixes(_, _)
\* the prefix operators applied to node, the one next to the operand first
WithPrefixes(prefixes, node) ==
    IF prefixes = <<>> THEN node
    ELSE WithPrefixes(SubSeq(prefixes, 1, Len(prefixes) - 1),
                      UnaryNode(prefixes[Len(prefixes)], node))

RECURSIVE ScanFlat(_, _, _, _, _)
\* the operands (each with its prefix operators applied) and the binary
\* operators between them of a token list without parentheses or calls
ScanFlat(tokens, i, items, ops, prefixes) ==
    LET t == tokens[i]
    IN  IF t.type \in {"eof", "newline"} THEN [items |-> items, ops |-> ops]
        ELSE IF t.type = "op" /\ Len(items) = Len(ops)
        THEN ScanFlat(tokens, i + 1, items, ops, Append(prefixes, t.value))
        ELSE IF t.type = "op"
        THEN ScanFlat(tokens, i + 1, items, Append(ops, t.value), <<>>)
        ELSE ScanFlat(tokens, i + 1,
                Append(items, WithPrefixes(prefixes,
                    CASE t.type = "basis" -> BasisNode(t.value)
                      [] t.type = "number" -> NumberNode(DigitsValue(t.value))
                      [] OTHER -> NameNode(t.value))),
                ops, <<>>)

RECURSIVE Grouped(_, _)
\* the tree of the claimed precedence: split at the last operator of the
\* lowest level
Grouped(items, ops) ==
    IF ops = <<>> THEN items[1]
    ELSE LET low == CHOOSE l \in 1..3 :
                       /\ \E j \in DOMAIN ops : Level(ops[j]) = l
                       /\ \A j \in DOMAIN ops : Level(ops[j]) >= l
             at == CHOOSE j \in DOMAIN ops :
                       /\ Level(ops[j]) = low
                       /\ \A k \in DOMAIN ops : Level(ops[k]) = low => k <= j
         IN  BinaryNode(ops[at],
                        Grouped(SubSeq(items, 1, at), SubSeq(ops, 1, at - 1)),
                        Grouped(SubSeq(items, at + 1, Len(items)),
                                SubSeq(ops, at + 1, Len(ops))))

\* the tree the claimed precedence gives the expression of the one statement
\* of the call's source
ClaimedTree ==
    LET scan == ScanFlat(Tokenize(argA.source, algebra).tokens, 3, <<>>, <<>>, <<>>)
    IN  Grouped(scan.items, scan.ops)

RECURSIVE NamesIn(_)
\* the names an expression refers to
NamesIn(expr) ==
    IF expr.type = "name" THEN {expr.name}
    ELSE UNION {NamesIn(expr.args[i]) : i \in DOMAIN expr.args}

\* the last statement before statement k that assigns name, 0 when none does
LastAssignment(program, k, name) ==
    LET earlier == {j \in 1..(k - 1) : program[j].name = name}
    IN  IF earlier = {} THEN 0
        ELSE CHOOSE j \in earlier : \A i \in earlier : i <= j

RECURSIVE Expand(_, _, _)
\* the expression of statement k with every name replaced by the expression
\* most recently assigned to it before statement k
Expand(program, k, expr) ==
    IF expr.type = "name"
    THEN LET j == LastAssignment(program, k, expr.name)
         IN  IF j = 0 THEN expr ELSE Expand(program, j, program[j].expr)
    ELSE [expr EXCEPT !.args = [i \in DOMAIN expr.args |->
                                    Expand(program, k, expr.args[i])]]

\* statement k refers to a name that no earlier statement assigns and that is
\* neither a seed entry nor a basis blade
Unbound(program, alg, seed, k) ==
    \E n \in NamesIn(program[k].expr) :
        /\ LastAssignment(program, k, n) = 0
        /\ ~MvHas(InitialEnv(alg, seed), n)

\* the value the claim gives name after the first k statements
Resolved(program, alg, seed, k, name) ==
    LET j == LastAssignment(program, k + 1, name)
    IN  EvalExpr(Expand(program, j, program[j].expr),
                 InitialEnv(alg, seed), alg).value

\* C23: gaEvaluate executes the statements in source order against one
\* environment: after k statements every assigned name holds the value of its
\* most recent assignment, with the names of that expression resolved the same
\* way (or to a seed entry or a basis blade); statement k throws exactly when
\* it refers to a name without a binding at that point, and then no
\* environment is returned.
C23_SourceOrderEnvironment ==
    LET program == argB.program
        k == argB.pc
        assigned == {program[j].name : j \in 1..k}
    IN  /\ (op = "evaluate" /\ k >= 1) =>
              /\ threw = Unbound(program, algebra, argA.seed, k)
              /\ ~threw => \A n \in assigned :
                    MvGet(out, n) = Resolved(program, algebra, argA.seed, k, n)
        /\ op = "returned" =>
              /\ \A j \in 1..k : ~Unbound(program, algebra, argA.seed, j)
              /\ \A n \in assigned :
                    MvGet(out, n) = Resolved(program, algebra, argA.seed, k, n)

====
